---- MODULE Spec2Model ----
(***************************************************************************)
(* Credit ledger, subscription grants and task settlement of OpenDocvivid. *)
(*                                                                         *)
(* The database holds the committed rows.  Every request or worker runs in *)
(* its own SQLAlchemy session: a handler first loads rows into the session *)
(* (plain SELECT, no row lock, default READ COMMITTED isolation), changes  *)
(* the loaded objects in memory and then commits, which writes the changed *)
(* attributes as absolute values and inserts the added rows in one         *)
(* database transaction.  Each handler is therefore two steps, its load    *)
(* (with all its checks) and its commit, and steps of different sessions   *)
(* interleave.                                                             *)
(***************************************************************************)
EXTENDS Integers, Sequences, FiniteSets, TLC

\* ---------------------------------------------------------------- bounds
MaxTx == 2          \* Spec: no handler starts once the log holds this many rows
MaxTicks == 1       \* the clock stops after this many ticks
MaxDays == 2        \* LifeSpec: single days the clock moves within a month
MaxGrants == 2      \* no grant is started once the log holds this many monthly grants
MaxRenewals == 1    \* renewals of a subscription that has not expired
MaxSegments == 2    \* CostSpec: segments of a task
MaxDuration == 62   \* CostSpec: largest measured segment duration (seconds)
MaxSplit == 3       \* PipeSpec: segments the split of a text returns

\* ------------------------------------------------------ program constants
MIN_CREDIT_FOR_TASK == 30
BASIC_MONTHLY_CREDITS == 1000
PRO_MONTHLY_CREDITS == 2200
LIMITED_REDEEM_AMOUNT == 1000
MONTHLY_DAYS == 30
PENDING_EXPIRY_DAYS == 1
YEARLY_DAYS == 365

\* --------------------------------------------------------------- calendar
\* Time is counted in days; the model calendar has twelve 30-day months and
\* the clock moves a month at a time.
NoDate == 0 - 1

Year(d) == d \div 360
Month(d) == ((d \div 30) % 12) + 1

\* ------------------------------------------------------------- identities
Users == {"u1", "u2"}
NoUser == "nobody"
SubIds == {"s1", "s2"}
NoSub == "nosub"
Codes == {"c1", "c2", "c3"}
NoCode == "nocode"
TaskIds == {"t1", "t2"}
NoTask == "notask"
Sessions == {"a", "b"}

VARIABLES
    credit_balance,   \* users.credit_balance, committed
    transactions,     \* credit_transactions rows in creation order
    subscriptions,    \* subscriptions rows
    redeem_codes,     \* redeem_codes rows
    now,              \* the clock, in days
    session,          \* one SQLAlchemy session per request / worker
    response,         \* what the step just taken returned or raised, if it did
    tasks,            \* video_generate_tasks rows
    queue             \* task ids enqueued for the Celery worker

vars == <<credit_balance, transactions, subscriptions, redeem_codes, now, session, response,
          tasks, queue>>

\* ------------------------------------------------------------------ rows
NoSubscription ==
    [status |-> "none", user_id |-> NoUser, subscription_period |-> "monthly",
     monthly_credits |-> 0, start_date |-> NoDate, end_date |-> NoDate,
     next_billing_date |-> NoDate, last_credit_grant_date |-> NoDate,
     created_at |-> NoDate, cancelled_at |-> NoDate]

NoVideoGenerateTask ==
    [status |-> "none", user_id |-> NoUser, progress |-> 0, credit_cost |-> 0,
     error_message |-> "", output_video_url |-> ""]

CreditTransaction(user_id, subscription_id, transaction_type, amount, balance_after) ==
    [user_id |-> user_id, subscription_id |-> subscription_id,
     transaction_type |-> transaction_type, amount |-> amount,
     balance_after |-> balance_after, created_at |-> now, task_id |-> NoTask]

\* A session: the handler it runs (op), the objects it has loaded and the
\* rows it has added but not yet committed.  objects are the Subscription
\* objects it holds, identity the User objects: a query does not refresh an
\* object the session already holds, a rollback expires them all.
NoIdentity == [u \in Users |-> [loaded |-> FALSE, credit_balance |-> 0]]

IdleSession ==
    [op |-> "idle", caller |-> "", user_id |-> NoUser, balance |-> 0, amount |-> 0,
     task_id |-> NoTask,
     subscription_id |-> NoSub, objects |-> [i \in SubIds |-> NoSubscription],
     remaining |-> {}, identity |-> NoIdentity, code |-> NoCode, added |-> <<>>,
     segment_durations |-> <<>>, segment_credits |-> <<>>, total_credits |-> 0,
     stage |-> "", segments |-> 0, segment |-> 0, attempt |-> 0, over_limit |-> FALSE,
     temp_dir |-> "", error_count |-> 0]

Idle(s) == session[s].op = "idle"

\* The finally clause of video_task: the temporary directory, if the run
\* created one, is removed with all it holds, and the session is closed.
video_task_finally_keeps_directory(s) ==
    [IdleSession EXCEPT !.temp_dir = session[s].temp_dir]

video_task_finally(s) ==
    [IdleSession EXCEPT !.temp_dir = IF session[s].temp_dir # "" THEN "" ELSE @]

\* The value a handler returns ("ok", "None", "transaction", "completed") or
\* the class of the exception it raises, with the arguments of the call.
NoResponse ==
    [handler |-> "", user_id |-> NoUser, subscription_id |-> NoSub, code |-> NoCode,
     amount |-> 0, result |-> "none"]

Response(handler, user_id, subscription_id, code, amount, result) ==
    [handler |-> handler, user_id |-> user_id, subscription_id |-> subscription_id,
     code |-> code, amount |-> amount, result |-> result]

\* -------------------------------------------------------- pure functions
calculate_segment_credit_from_60(duration_seconds) ==
    IF duration_seconds >= 60 THEN 45
    ELSE IF duration_seconds >= 45 THEN 40
    ELSE IF duration_seconds >= 30 THEN 35
    ELSE 30

calculate_segment_credit_from_44(duration_seconds) ==
    IF duration_seconds > 60 THEN 45
    ELSE IF duration_seconds >= 44 THEN 40
    ELSE IF duration_seconds >= 30 THEN 35
    ELSE 30

calculate_segment_credit(duration_seconds) ==
    IF duration_seconds > 60 THEN 45
    ELSE IF duration_seconds >= 45 THEN 40
    ELSE IF duration_seconds >= 30 THEN 35
    ELSE 30

SumSeq_head(q) == IF q = <<>> THEN 0 ELSE Head(q)

RECURSIVE SumSeq(_)
SumSeq(q) == IF q = <<>> THEN 0 ELSE Head(q) + SumSeq(Tail(q))

segment_credits_of(segment_durations) ==
    [i \in 1..Len(segment_durations) |-> calculate_segment_credit(segment_durations[i])]

Min(a, b) == IF a < b THEN a ELSE b

TypeCount(transaction_type) ==
    Cardinality({i \in 1..Len(transactions) :
                    transactions[i].transaction_type = transaction_type})

\* The redeem codes the operator has issued: two of the limited 1000-credit
\* tier and one of another amount.
IssuedAmount(c) == IF c = "c3" THEN 500 ELSE LIMITED_REDEEM_AMOUNT

\* ------------------------------------------------------------------ Init
Init ==
    /\ credit_balance = [u \in Users |-> 0]
    /\ transactions = <<>>
    /\ subscriptions = [i \in SubIds |-> NoSubscription]
    /\ redeem_codes = [c \in Codes |-> [credit_amount |-> IssuedAmount(c),
                                        is_used |-> FALSE, used_by |-> NoUser]]
    /\ now = 0
    /\ session = [s \in Sessions |-> IdleSession]
    /\ response = NoResponse
    /\ tasks = [t \in TaskIds |-> NoVideoGenerateTask]
    /\ queue = {}

\* ---------------------------------------------------------------- commit
\* db.commit(): the loaded user's credit_balance is written as the value the
\* session holds and the added rows are inserted, in one transaction.
CommitLedger(s) ==
    /\ credit_balance' = [credit_balance EXCEPT ![session[s].user_id] = session[s].balance]
    /\ transactions' = transactions \o session[s].added

\* The except clause the ledger handlers end with: db.rollback(), and the
\* exception, whatever it was, re-raised as InternalServerException.
ExceptAll(exception) == "InternalServerException"

\* db.refresh(transaction), after the commit: it returns, or it raises (the
\* connection is lost) and the except clause re-raises although the commit
\* has been made.
Refreshed(result, exception) == {result, exception}

\* ------------------------------------------------------------ consume_credit
insufficient_credit_never(balance, amount) == FALSE

insufficient_credit(balance, amount) == balance < amount

consume_credit_load(s, user_id, amount) ==
    /\ Idle(s)
    /\ IF user_id \notin Users
       THEN /\ session' = session
            /\ response' = Response("consume_credit", user_id, NoSub, NoCode, amount,
                                    ExceptAll("NotFoundException"))
       ELSE IF insufficient_credit(credit_balance[user_id], amount)
       THEN /\ session' = session
            /\ response' = Response("consume_credit", user_id, NoSub, NoCode, amount,
                                    ExceptAll("InsufficientCreditException"))
       ELSE /\ session' = [session EXCEPT ![s] =
                [IdleSession EXCEPT
                    !.op = "consume", !.user_id = user_id, !.amount = amount,
                    !.balance = credit_balance[user_id] - amount,
                    !.added = <<CreditTransaction(user_id, NoSub, "task_consume",
                                  0 - amount, credit_balance[user_id] - amount)>>]]
            /\ response' = NoResponse
    /\ UNCHANGED <<credit_balance, transactions, subscriptions, redeem_codes, now, tasks, queue>>

consume_credit_commit(s) ==
    /\ session[s].op = "consume"
    /\ CommitLedger(s)
    /\ session' = [session EXCEPT ![s] = IdleSession]
    /\ \E result \in Refreshed("transaction", ExceptAll("OperationalError")) :
          response' = Response("consume_credit", session[s].user_id, NoSub, NoCode,
                               session[s].amount, result)
    /\ UNCHANGED <<subscriptions, redeem_codes, now, tasks, queue>>

\* -------------------------------------------------------------- grant_credit
\* refund_credit is grant_credit with the type refund.
grant_credit_load(s, user_id, amount, transaction_type) ==
    /\ Idle(s)
    /\ IF user_id \notin Users
       THEN /\ session' = session
            /\ response' = Response("grant_credit", user_id, NoSub, NoCode, amount,
                                    ExceptAll("NotFoundException"))
       ELSE /\ session' = [session EXCEPT ![s] =
                [IdleSession EXCEPT
                    !.op = "grant", !.user_id = user_id, !.amount = amount,
                    !.balance = credit_balance[user_id] + amount,
                    !.added = <<CreditTransaction(user_id, NoSub, transaction_type,
                                  amount, credit_balance[user_id] + amount)>>]]
            /\ response' = NoResponse
    /\ UNCHANGED <<credit_balance, transactions, subscriptions, redeem_codes, now, tasks, queue>>

grant_credit_commit(s) ==
    /\ session[s].op = "grant"
    /\ CommitLedger(s)
    /\ session' = [session EXCEPT ![s] = IdleSession]
    /\ \E result \in Refreshed("transaction", ExceptAll("OperationalError")) :
          response' = Response("grant_credit", session[s].user_id, NoSub, NoCode,
                               session[s].amount, result)
    /\ UNCHANGED <<subscriptions, redeem_codes, now, tasks, queue>>

\* ------------------------------------------------------------- refund_credit
\* CreditService.refund_credit calls grant_credit with the type refund;
\* grant_credit has no task_id parameter, so the task_id argument stays with
\* the call and the row is created without it.
refund_credit_load(s, user_id, amount, task_id) ==
    /\ Idle(s)
    /\ IF user_id \notin Users
       THEN /\ session' = session
            /\ response' = Response("refund_credit", user_id, NoSub, NoCode, amount,
                                    ExceptAll("NotFoundException"))
       ELSE /\ session' = [session EXCEPT ![s] =
                [IdleSession EXCEPT
                    !.op = "grant", !.user_id = user_id, !.amount = amount,
                    !.task_id = task_id,
                    !.balance = credit_balance[user_id] + amount,
                    !.added = <<CreditTransaction(user_id, NoSub, "refund",
                                  amount, credit_balance[user_id] + amount)>>]]
            /\ response' = NoResponse
    /\ UNCHANGED <<credit_balance, transactions, subscriptions, redeem_codes, now, tasks, queue>>

\* SyncCreditService.refund_credit_sync builds its row itself, task_id
\* included.
refund_credit_sync_load(s, user_id, amount, task_id) ==
    /\ Idle(s)
    /\ IF user_id \notin Users
       THEN /\ session' = session
            /\ response' = Response("refund_credit_sync", user_id, NoSub, NoCode, amount,
                                    ExceptAll("NotFoundException"))
       ELSE /\ session' = [session EXCEPT ![s] =
                [IdleSession EXCEPT
                    !.op = "refund", !.user_id = user_id, !.amount = amount,
                    !.task_id = task_id,
                    !.balance = credit_balance[user_id] + amount,
                    !.added = <<[CreditTransaction(user_id, NoSub, "refund",
                                   amount, credit_balance[user_id] + amount)
                                 EXCEPT !.task_id = task_id]>>]]
            /\ response' = NoResponse
    /\ UNCHANGED <<credit_balance, transactions, subscriptions, redeem_codes, now, tasks, queue>>

refund_credit_sync_commit(s) ==
    /\ session[s].op = "refund"
    /\ CommitLedger(s)
    /\ session' = [session EXCEPT ![s] = IdleSession]
    /\ \E result \in Refreshed("transaction", ExceptAll("OperationalError")) :
          response' = Response("refund_credit_sync", session[s].user_id, NoSub, NoCode,
                               session[s].amount, result)
    /\ UNCHANGED <<subscriptions, redeem_codes, now, tasks, queue>>

\* --------------------------------------------------------------- redeem_code
\* BadRequestException and NotFoundException pass through unchanged, every
\* other exception is rolled back and re-raised as InternalServerException.
ExceptRedeem(exception) ==
    IF exception \in {"BadRequestException", "NotFoundException"}
    THEN exception ELSE "InternalServerException"

HasRedeemed1000(user_id) ==
    \E i \in 1..Len(transactions) :
        /\ transactions[i].user_id = user_id
        /\ transactions[i].transaction_type = "redeem_code"
        /\ transactions[i].amount = LIMITED_REDEEM_AMOUNT

redeem_code_load(s, user_id, code) ==
    /\ Idle(s)
    /\ IF code \notin Codes
       THEN /\ session' = session
            /\ response' = Response("redeem_code", user_id, NoSub, code, 0,
                                    ExceptRedeem("BadRequestException"))
       ELSE IF redeem_codes[code].is_used
       THEN /\ session' = session
            /\ response' = Response("redeem_code", user_id, NoSub, code, 0,
                                    ExceptRedeem("BadRequestException"))
       ELSE IF /\ redeem_codes[code].credit_amount = LIMITED_REDEEM_AMOUNT
               /\ HasRedeemed1000(user_id)
       THEN /\ session' = session
            /\ response' = Response("redeem_code", user_id, NoSub, code, 0,
                                    ExceptRedeem("BadRequestException"))
       ELSE IF user_id \notin Users
       THEN /\ session' = session
            /\ response' = Response("redeem_code", user_id, NoSub, code, 0,
                                    ExceptRedeem("NotFoundException"))
       ELSE LET credit_amount == redeem_codes[code].credit_amount IN
            /\ session' = [session EXCEPT ![s] =
                [IdleSession EXCEPT
                    !.op = "redeem", !.user_id = user_id, !.code = code,
                    !.amount = credit_amount,
                    !.balance = credit_balance[user_id] + credit_amount,
                    !.added = <<CreditTransaction(user_id, NoSub, "redeem_code",
                                  credit_amount, credit_balance[user_id] + credit_amount)>>]]
            /\ response' = NoResponse
    /\ UNCHANGED <<credit_balance, transactions, subscriptions, redeem_codes, now, tasks, queue>>

redeem_code_commit(s) ==
    /\ session[s].op = "redeem"
    /\ CommitLedger(s)
    /\ redeem_codes' = [redeem_codes EXCEPT ![session[s].code].is_used = TRUE,
                                            ![session[s].code].used_by = session[s].user_id]
    /\ session' = [session EXCEPT ![s] = IdleSession]
    /\ \E result \in Refreshed("transaction", ExceptRedeem("OperationalError")) :
          response' = Response("redeem_code", session[s].user_id, NoSub, session[s].code,
                               session[s].amount, result)
    /\ UNCHANGED <<subscriptions, now, tasks, queue>>

\* ------------------------------------------------- video_task, credit settlement
\* Step 10 of video_task: the cost of the measured segments is taken from the
\* user's balance, which may go negative.  An exception in the block is logged
\* and swallowed with total_credits = 0; the commit is the one of step 11.
\* The block fails when the user query finds no row or raises (user_id is
\* then not a user), which is before the balance is touched; no statement
\* after the debit can raise.
\* The worker is idle when the task row is left out of the picture (Spec,
\* CostSpec) and processing when the row is there (TaskSpec); then
\* update_task_progress(98) is committed before the block.
video_task_settle(s, user_id, segment_durations) ==
    /\ session[s].op \in {"idle", "processing"}
    /\ LET segment_credits == segment_credits_of(segment_durations)
           total_credits == SumSeq(segment_credits)
       IN  IF user_id \notin Users
           THEN session' = [session EXCEPT ![s] =
                    [IdleSession EXCEPT
                        !.op = "settle", !.task_id = session[s].task_id,
                        !.temp_dir = session[s].temp_dir,
                        !.segment_durations = segment_durations,
                        !.segment_credits = segment_credits, !.total_credits = 0]]
           ELSE session' = [session EXCEPT ![s] =
                    [IdleSession EXCEPT
                        !.op = "settle", !.user_id = user_id,
                        !.task_id = session[s].task_id,
                        !.temp_dir = session[s].temp_dir,
                        !.segment_durations = segment_durations,
                        !.segment_credits = segment_credits,
                        !.total_credits = total_credits,
                        !.balance = credit_balance[user_id] - total_credits,
                        !.added = <<[CreditTransaction(user_id, NoSub, "task_consume",
                                       0 - total_credits,
                                       credit_balance[user_id] - total_credits)
                                     EXCEPT !.task_id = session[s].task_id]>>]]
    /\ tasks' = IF session[s].task_id \in TaskIds
                THEN [tasks EXCEPT ![session[s].task_id].progress = 98]
                ELSE tasks
    /\ response' = NoResponse
    /\ UNCHANGED <<credit_balance, transactions, subscriptions, redeem_codes, now, queue>>

video_task_commit_cost_of_segments(s) ==
    /\ session[s].op = "settle"
    /\ IF session[s].user_id \in Users
       THEN CommitLedger(s)
       ELSE UNCHANGED <<credit_balance, transactions>>
    /\ session' = [session EXCEPT ![s] = video_task_finally(s)]
    /\ tasks' = IF session[s].task_id \in TaskIds
                THEN [tasks EXCEPT ![session[s].task_id] =
                        [@ EXCEPT !.status = "completed", !.progress = 100,
                                  !.credit_cost = SumSeq(session[s].segment_credits),
                                  !.output_video_url = "url", !.error_message = ""]]
                ELSE tasks
    /\ response' = Response("video_task", session[s].user_id, NoSub, NoCode,
                            session[s].total_credits, "completed")
    /\ UNCHANGED <<subscriptions, redeem_codes, now, queue>>

video_task_commit(s) ==
    /\ session[s].op = "settle"
    /\ IF session[s].user_id \in Users
       THEN CommitLedger(s)
       ELSE UNCHANGED <<credit_balance, transactions>>
    /\ session' = [session EXCEPT ![s] = video_task_finally(s)]
    /\ tasks' = IF session[s].task_id \in TaskIds
                THEN [tasks EXCEPT ![session[s].task_id] =
                        [@ EXCEPT !.status = "completed", !.progress = 100,
                                  !.credit_cost = session[s].total_credits,
                                  !.output_video_url = "url", !.error_message = ""]]
                ELSE tasks
    /\ response' = Response("video_task", session[s].user_id, NoSub, NoCode,
                            session[s].total_credits, "completed")
    /\ UNCHANGED <<subscriptions, redeem_codes, now, queue>>

\* ------------------------------------------------------- check_credit_sufficient
check_credit_sufficient_nonnegative(balance, required_credit) == balance >= 0

check_credit_sufficient(balance, required_credit) == balance >= required_credit

\* ----------------------------------------------------- submit_generation_task
\* The admission check.  task_id is the fresh uuid4 of line 93.
submit_generation_task(s, user_id, task_id) ==
    /\ Idle(s)
    /\ tasks[task_id].status = "none"
    /\ IF user_id \notin Users
       THEN \* check_credit_sufficient re-raises its NotFoundException
            /\ response' = Response("submit_generation_task", user_id, NoSub, NoCode, 0,
                                    "InternalServerException")
            /\ UNCHANGED session
       ELSE IF ~check_credit_sufficient(credit_balance[user_id], MIN_CREDIT_FOR_TASK)
       THEN /\ response' = Response("submit_generation_task", user_id, NoSub, NoCode, 0,
                                    "InsufficientCreditException")
            /\ UNCHANGED session
       ELSE /\ session' = [session EXCEPT ![s] =
                    [IdleSession EXCEPT !.op = "submit", !.user_id = user_id,
                                        !.task_id = task_id,
                                        !.balance = credit_balance[user_id]]]
            /\ response' = NoResponse
    /\ UNCHANGED <<credit_balance, transactions, subscriptions, redeem_codes, now, tasks, queue>>

\* The input is read: no file, url or text, a file that cannot be read, a url
\* that cannot be fetched, a text over the token limit.
submit_rejects_input(s) ==
    /\ session[s].op = "submit"
    /\ session' = [session EXCEPT ![s] = IdleSession]
    /\ response' = Response("submit_generation_task", session[s].user_id, NoSub, NoCode, 0,
                            "BadRequestException")
    /\ UNCHANGED <<credit_balance, transactions, subscriptions, redeem_codes, now, tasks, queue>>

\* The task row is committed and the worker job enqueued.
submit_commit(s) ==
    /\ session[s].op = "submit"
    /\ tasks[session[s].task_id].status = "none"
    /\ tasks' = [tasks EXCEPT ![session[s].task_id] =
            [NoVideoGenerateTask EXCEPT !.status = "pending", !.user_id = session[s].user_id]]
    /\ queue' = queue \cup {session[s].task_id}
    /\ session' = [session EXCEPT ![s] = IdleSession]
    /\ response' = Response("submit_generation_task", session[s].user_id, NoSub, NoCode, 0,
                            session[s].task_id)
    /\ UNCHANGED <<credit_balance, transactions, subscriptions, redeem_codes, now>>

\* --------------------------------------------------------------- video_task
\* Step 1: the worker takes the job, loads the task row and commits status
\* processing, progress 5.
video_task_start(s, task_id) ==
    /\ Idle(s)
    /\ task_id \in queue
    /\ queue' = queue \ {task_id}
    /\ IF tasks[task_id].status = "none"
       THEN /\ response' = Response("video_task", NoUser, NoSub, NoCode, 0, "failed")
            /\ UNCHANGED <<tasks, session>>
       ELSE /\ tasks' = [tasks EXCEPT ![task_id] =
                    [@ EXCEPT !.status = "processing", !.progress = 5]]
            /\ session' = [session EXCEPT ![s] =
                    [IdleSession EXCEPT !.op = "processing", !.task_id = task_id,
                                        !.user_id = tasks[task_id].user_id,
                                        !.stage = "begin"]]
            /\ response' = NoResponse
    /\ UNCHANGED <<credit_balance, transactions, subscriptions, redeem_codes, now>>

\* Steps 2 to 9: a stage raises (no text, no segments, a collaborator fails);
\* the except clause commits status failed and the text of the exception.
video_task_fails(s) ==
    /\ session[s].op = "processing"
    /\ tasks' = [tasks EXCEPT ![session[s].task_id] =
                    [@ EXCEPT !.status = "failed", !.error_message = "error"]]
    /\ session' = [session EXCEPT ![s] = video_task_finally(s)]
    /\ response' = Response("video_task", session[s].user_id, NoSub, NoCode, 0, "failed")
    /\ UNCHANGED <<credit_balance, transactions, subscriptions, redeem_codes, now, queue>>

\* ------------------------------------------------- video_task, steps 2 to 9
\* update_task_progress: task.progress = int(progress_percent), committed.
update_task_progress(task_id, progress_percent) ==
    [tasks EXCEPT ![task_id].progress = progress_percent]

\* The progress written before call k (0 image, 1 narration, 2 audio, 3 merge)
\* of segment i of n: int(20 + i*60/n + k*60/(4*n)), the integer part of
\* 20 + 15*(4i + k)/n.  The floating-point sum of the code has this integer
\* part for every n up to 8.
segment_progress_unscaled(i, n, k) == 20 + 15 * (4 * i + k)

segment_progress(i, n, k) == 20 + (15 * (4 * i + k)) \div n

\* The run goes from one stage to the next: the progress of the next stage is
\* committed and the worker is then inside that stage.
StageStep(s, stage, progress_percent, entered) ==
    /\ session[s].op = "processing"
    /\ session[s].stage = stage
    /\ tasks' = update_task_progress(session[s].task_id, progress_percent)
    /\ session' = [session EXCEPT ![s] = entered]
    /\ response' = NoResponse
    /\ UNCHANGED <<credit_balance, transactions, subscriptions, redeem_codes, now, queue>>

\* Step 2, progress 10: task.original_text is read.
video_task_text(s) ==
    StageStep(s, "begin", 10, [session[s] EXCEPT !.stage = "text"])

\* Step 3, progress 20: the text is there, tempfile.mkdtemp() has made the
\* working directory and split_content_into_segments is called for the first
\* time.
video_task_split(s) ==
    StageStep(s, "text", 20,
              [session[s] EXCEPT !.stage = "split", !.attempt = 1, !.temp_dir = "tmp"])

\* split_content_into_segments returns n segments; the loop enters segment 0
\* and calls generate_image_for_segment.  With no segment the next statement
\* of video_task raises ValueError.
split_content_into_segments(s, n) ==
    IF n = 0
    THEN /\ session[s].op = "processing"
         /\ session[s].stage = "split"
         /\ session' = [session EXCEPT ![s].stage = "segments"]
         /\ response' = NoResponse
         /\ UNCHANGED <<credit_balance, transactions, subscriptions, redeem_codes, now,
                        tasks, queue>>
    ELSE StageStep(s, "split", segment_progress(0, n, 0),
                   [session[s] EXCEPT !.stage = "image", !.segments = n, !.segment = 0,
                                      !.attempt = 1])

\* generate_image_for_segment returns; generate_narration_script is called.
generate_image_for_segment(s) ==
    StageStep(s, "image",
              segment_progress(session[s].segment, session[s].segments, 1),
              [session[s] EXCEPT !.stage = "narration", !.attempt = 1])

\* generate_narration_script returns a text that is over the 32000 tokens of
\* generate_audio_from_text or not; generate_audio_from_text is called.
generate_narration_script(s, over_limit) ==
    StageStep(s, "narration",
              segment_progress(session[s].segment, session[s].segments, 2),
              [session[s] EXCEPT !.stage = "audio", !.attempt = 1,
                                 !.over_limit = over_limit])

\* generate_audio_from_text returns, which it cannot do for a text over the
\* limit; merge_image_and_audio is called (attempt stays the number of
\* attempts the audio took).
generate_audio_from_text(s) ==
    /\ ~session[s].over_limit
    /\ StageStep(s, "audio",
                 segment_progress(session[s].segment, session[s].segments, 3),
                 [session[s] EXCEPT !.stage = "merge"])

merge_image_and_audio_once(s, segment_duration) ==
    StageStep(s, "merge", 85,
              [session[s] EXCEPT
                  !.stage = "concat", !.over_limit = FALSE,
                  !.segment_durations = Append(@, segment_duration)])

\* merge_image_and_audio returns and get_video_duration measures the clip;
\* the loop enters the next segment, or step 8 (progress 85) after the last.
merge_image_and_audio(s, segment_duration) ==
    IF session[s].segment + 1 < session[s].segments
    THEN StageStep(s, "merge",
                   segment_progress(session[s].segment + 1, session[s].segments, 0),
                   [session[s] EXCEPT
                       !.stage = "image", !.segment = @ + 1, !.attempt = 1,
                       !.over_limit = FALSE,
                       !.segment_durations = Append(@, segment_duration)])
    ELSE StageStep(s, "merge", 85,
                   [session[s] EXCEPT
                       !.stage = "concat", !.over_limit = FALSE,
                       !.segment_durations = Append(@, segment_duration)])

\* concatenate_videos returns a file of at least 1000 bytes; step 9 (progress
\* 95) uploads it.
concatenate_videos(s) ==
    StageStep(s, "concat", 95, [session[s] EXCEPT !.stage = "upload"])

\* @retry(stop=stop_after_attempt(3)) around the four calls to the generation
\* service: whatever the call raises, TokenLimitExceededError included, it is
\* called again until the third attempt has failed; then RetryError leaves
\* the call and the except clause of video_task commits status failed.
stop_after_attempt == 3

RetriedStages == {"split", "image", "narration", "audio"}

retry_exhausted_at_second(attempt) == attempt >= 2

retry_exhausted(attempt) == attempt >= stop_after_attempt

retry_forever(s) ==
    /\ session[s].op = "processing"
    /\ session[s].stage \in RetriedStages
    /\ session' = [session EXCEPT ![s].attempt =
                        IF retry_exhausted(@) THEN 1 ELSE @ + 1]
    /\ response' = NoResponse
    /\ UNCHANGED <<credit_balance, transactions, subscriptions, redeem_codes, now, queue,
                   tasks>>

retry(s) ==
    /\ session[s].op = "processing"
    /\ session[s].stage \in RetriedStages
    /\ IF retry_exhausted(session[s].attempt)
       THEN /\ tasks' = [tasks EXCEPT ![session[s].task_id] =
                    [@ EXCEPT !.status = "failed", !.error_message = "RetryError"]]
            /\ session' = [session EXCEPT ![s] = video_task_finally(s)]
            /\ response' = Response("video_task", session[s].user_id, NoSub, NoCode, 0,
                                    "failed")
       ELSE /\ session' = [session EXCEPT ![s].attempt = @ + 1]
            /\ response' = NoResponse
            /\ UNCHANGED tasks
    /\ UNCHANGED <<credit_balance, transactions, subscriptions, redeem_codes, now, queue>>

video_task_commit_fails_after_debit(s) ==
    /\ session[s].op = "settle"
    /\ session[s].task_id \in TaskIds
    /\ IF session[s].user_id \in Users
       THEN CommitLedger(s)
       ELSE UNCHANGED <<credit_balance, transactions>>
    /\ tasks' = [tasks EXCEPT ![session[s].task_id] =
                    [@ EXCEPT !.status = "failed", !.error_message = "error"]]
    /\ session' = [session EXCEPT ![s] = video_task_finally(s)]
    /\ response' = Response("video_task", session[s].user_id, NoSub, NoCode, 0, "failed")
    /\ UNCHANGED <<subscriptions, redeem_codes, now, queue>>

\* Step 11, session.commit() raises: the commit rolls the session back, the
\* debit and the added row with it, and the except clause of video_task
\* commits status failed.
video_task_commit_fails(s) ==
    /\ session[s].op = "settle"
    /\ session[s].task_id \in TaskIds
    /\ tasks' = [tasks EXCEPT ![session[s].task_id] =
                    [@ EXCEPT !.status = "failed", !.error_message = "error"]]
    /\ session' = [session EXCEPT ![s] = video_task_finally(s)]
    /\ response' = Response("video_task", session[s].user_id, NoSub, NoCode, 0, "failed")
    /\ UNCHANGED <<credit_balance, transactions, subscriptions, redeem_codes, now, queue>>

\* The broker delivers the message of a task once more (a worker lost with
\* the message unacknowledged, a message sent twice).
video_task_redelivered(task_id) ==
    /\ tasks[task_id].status # "none"
    /\ task_id \notin queue
    /\ \A s \in Sessions : session[s].task_id # task_id
    /\ queue' = queue \cup {task_id}
    /\ response' = NoResponse
    /\ UNCHANGED <<credit_balance, transactions, subscriptions, redeem_codes, now, session,
                   tasks>>

\* ------------------------------------------------------------ commit failure
\* db.commit() raises (connection lost, constraint): the handler's except
\* clause rolls the session back and nothing of it reaches the database.
commit_fails(s) ==
    /\ session[s].op \in {"consume", "grant", "redeem"}
    /\ session' = [session EXCEPT ![s] = IdleSession]
    /\ response' =
         IF session[s].op = "consume"
         THEN Response("consume_credit", session[s].user_id, NoSub, NoCode,
                       session[s].amount, ExceptAll("OperationalError"))
         ELSE IF session[s].op = "grant"
         THEN Response("grant_credit", session[s].user_id, NoSub, NoCode,
                       session[s].amount, ExceptAll("OperationalError"))
         ELSE Response("redeem_code", session[s].user_id, NoSub, session[s].code,
                       session[s].amount, ExceptRedeem("OperationalError"))
    /\ UNCHANGED <<credit_balance, transactions, subscriptions, redeem_codes, now, tasks, queue>>

\* ------------------------------------------------------- subscription plans
monthly_credits_of(subscription_type) ==
    IF subscription_type = "basic" THEN BASIC_MONTHLY_CREDITS ELSE PRO_MONTHLY_CREDITS

period_days_monthly(subscription_period) == MONTHLY_DAYS

period_days(subscription_period) ==
    IF subscription_period = "yearly" THEN YEARLY_DAYS ELSE MONTHLY_DAYS

\* get_active_subscription: the user's active, unexpired subscription.
\* scalar_one_or_none raises when there are several; the function catches
\* every exception and returns None.
ActiveSubscriptions(user_id) ==
    {i \in SubIds : /\ subscriptions[i].user_id = user_id
                    /\ subscriptions[i].status = "active"
                    /\ subscriptions[i].end_date > now}

get_active_subscription(user_id) ==
    IF Cardinality(ActiveSubscriptions(user_id)) = 1
    THEN CHOOSE i \in SubIds : i \in ActiveSubscriptions(user_id)
    ELSE NoSub

\* -------------------------------------------------------- _create_subscription
SubscriptionType == {"basic", "pro"}
SubscriptionPeriod == {"monthly", "yearly"}

create_subscription(s, id, user_id, subscription_type, subscription_period) ==
    /\ Idle(s)
    /\ subscriptions[id].status = "none"
    /\ IF subscription_type \notin SubscriptionType
          \/ subscription_period \notin SubscriptionPeriod
       THEN /\ response' = Response("create_subscription", user_id, id, NoCode, 0,
                                    "BadRequestException")
            /\ UNCHANGED subscriptions
       ELSE IF user_id \notin Users
       THEN /\ response' = Response("create_subscription", user_id, id, NoCode, 0,
                                    "NotFoundException")
            /\ UNCHANGED subscriptions
       ELSE IF get_active_subscription(user_id) # NoSub
       THEN /\ response' = Response("create_subscription", user_id, id, NoCode, 0,
                                    "ConflictException")
            /\ UNCHANGED subscriptions
       ELSE /\ subscriptions' = [subscriptions EXCEPT ![id] =
                    [NoSubscription EXCEPT
                        !.status = "pending", !.user_id = user_id, !.created_at = now,
                        !.subscription_period = subscription_period,
                        !.monthly_credits = monthly_credits_of(subscription_type)]]
            /\ response' = Response("create_subscription", user_id, id, NoCode, 0, "ok")
    /\ UNCHANGED <<credit_balance, transactions, redeem_codes, now, session, tasks, queue>>

\* ---------------------------------------------- grant_monthly_subscription_credit
\* The Subscription object a session uses: the one it holds, or the row read
\* again when the object was expired by a rollback.
Object(ss, id) ==
    IF ss.objects[id].status = "none" THEN subscriptions[id] ELSE ss.objects[id]

\* The User object: the one in the session's identity map if it is there,
\* else the row.
LoadedBalance(ss, user_id) ==
    IF ss.identity[user_id].loaded THEN ss.identity[user_id].credit_balance
    ELSE credit_balance[user_id]

SameMonth(d, e) == Year(d) = Year(e) /\ Month(d) = Month(e)

\* Amount of the latest monthly_grant row of the subscription, 0 if none.
LastGrantAmount(id, user_id) ==
    LET rows == {i \in 1..Len(transactions) :
                    /\ transactions[i].subscription_id = id
                    /\ transactions[i].transaction_type = "monthly_grant"
                    /\ transactions[i].user_id = user_id}
    IN  IF rows = {} THEN 0
        ELSE transactions[CHOOSE i \in rows : \A j \in rows : j <= i].amount

reclaim_amount_whole_grant(last_grant_amount, balance) == last_grant_amount

reclaim_amount(last_grant_amount, balance) == Min(last_grant_amount, balance)

already_granted_this_month(subscription) ==
    /\ subscription.last_credit_grant_date # NoDate
    /\ SameMonth(subscription.last_credit_grant_date, now)

subscription_not_active_never(subscription) == FALSE

subscription_not_active(subscription) == subscription.status # "active"

ReturnsNone(ss, id) ==
    \/ already_granted_this_month(Object(ss, id))
    \/ subscription_not_active(Object(ss, id))

\* The session after the function has returned or raised: the sweep goes on
\* with its loop (after a rollback with every object expired), the other
\* callers return.
AfterGrant_aborting(ss, rolled_back) ==
    IF ss.caller # "sweep" \/ rolled_back THEN IdleSession
    ELSE [ss EXCEPT !.op = "sweep", !.added = <<>>, !.user_id = NoUser,
                    !.balance = 0, !.subscription_id = NoSub]

AfterGrant(ss, rolled_back) ==
    IF ss.caller # "sweep" THEN IdleSession
    ELSE IF rolled_back
    THEN [IdleSession EXCEPT !.op = "sweep", !.caller = "sweep",
                             !.remaining = ss.remaining,
                             !.error_count = ss.error_count + 1]
    ELSE [ss EXCEPT !.op = "sweep", !.added = <<>>, !.user_id = NoUser,
                    !.balance = 0, !.subscription_id = NoSub]

\* The function up to its commit: the session after it.
grant_monthly_subscription_credit(ss, id) ==
    LET subscription == Object(ss, id)
        user_id == subscription.user_id
        balance == LoadedBalance(ss, user_id)
        last_amount == IF subscription.last_credit_grant_date # NoDate
                       THEN LastGrantAmount(id, user_id) ELSE 0
        reclaim == IF last_amount > 0 THEN reclaim_amount(last_amount, balance) ELSE 0
        reclaimed == IF reclaim > 0 THEN balance - reclaim ELSE balance
        granted == reclaimed + subscription.monthly_credits
    IN  IF ReturnsNone(ss, id) THEN AfterGrant(ss, FALSE)
        ELSE [ss EXCEPT
                !.op = "monthly", !.subscription_id = id, !.user_id = user_id,
                !.balance = granted,
                !.objects = [@ EXCEPT ![id] =
                                [subscription EXCEPT !.last_credit_grant_date = now]],
                !.added = (IF reclaim > 0
                           THEN <<CreditTransaction(user_id, id, "monthly_reclaim",
                                                    0 - reclaim, reclaimed)>>
                           ELSE <<>>)
                          \o <<CreditTransaction(user_id, id, "monthly_grant",
                                                 subscription.monthly_credits, granted)>>]

GrantResponse(ss, id, result) ==
    Response("grant_monthly_subscription_credit", Object(ss, id).user_id, id, NoCode,
             Object(ss, id).monthly_credits, result)

grant_monthly_load(s) ==
    /\ session[s].op = "call_grant"
    /\ session' = [session EXCEPT ![s] =
            grant_monthly_subscription_credit(session[s], session[s].subscription_id)]
    /\ response' = IF ReturnsNone(session[s], session[s].subscription_id)
                   THEN GrantResponse(session[s], session[s].subscription_id, "None")
                   ELSE NoResponse
    /\ UNCHANGED <<credit_balance, transactions, subscriptions, redeem_codes, now, tasks, queue>>

grant_monthly_commit(s) ==
    /\ session[s].op = "monthly"
    /\ CommitLedger(s)
    /\ subscriptions' = [subscriptions EXCEPT ![session[s].subscription_id].last_credit_grant_date =
            session[s].objects[session[s].subscription_id].last_credit_grant_date]
    /\ \E result \in Refreshed("transaction", ExceptAll("OperationalError")) :
          /\ session' = [session EXCEPT ![s] =
                AfterGrant([session[s] EXCEPT
                                !.identity = [@ EXCEPT ![session[s].user_id] =
                                    [loaded |-> TRUE, credit_balance |-> session[s].balance]]],
                           result # "transaction")]
          /\ response' = GrantResponse(session[s], session[s].subscription_id, result)
    /\ UNCHANGED <<redeem_codes, now, tasks, queue>>

\* db.commit() raises: rollback and InternalServerException; the sweep logs
\* it and goes on with the next subscription.
grant_monthly_fails(s) ==
    /\ session[s].op = "monthly"
    /\ session' = [session EXCEPT ![s] = AfterGrant(session[s], TRUE)]
    /\ response' = GrantResponse(session[s], session[s].subscription_id,
                                 ExceptAll("OperationalError"))
    /\ UNCHANGED <<credit_balance, transactions, subscriptions, redeem_codes, now, tasks, queue>>

\* A caller that holds a Subscription object and calls the function.
call_grant_monthly(s, id) ==
    /\ Idle(s)
    /\ subscriptions[id].status # "none"
    /\ session' = [session EXCEPT ![s] =
            [IdleSession EXCEPT !.op = "call_grant", !.caller = "direct",
                                !.subscription_id = id,
                                !.objects = [@ EXCEPT ![id] = subscriptions[id]]]]
    /\ response' = NoResponse
    /\ UNCHANGED <<credit_balance, transactions, subscriptions, redeem_codes, now, tasks, queue>>

\* -------------------------------------------------------- activate_subscription
\* The subscription is made active and committed, then the first grant is made.
activate_subscription(s, id, user_id) ==
    /\ Idle(s)
    /\ IF subscriptions[id].status = "none"
       THEN /\ response' = Response("activate_subscription", user_id, id, NoCode, 0,
                                    "NotFoundException")
            /\ UNCHANGED <<subscriptions, session>>
       ELSE IF subscriptions[id].user_id # user_id
       THEN /\ response' = Response("activate_subscription", user_id, id, NoCode, 0,
                                    "ForbiddenException")
            /\ UNCHANGED <<subscriptions, session>>
       ELSE LET row == [subscriptions[id] EXCEPT
                            !.status = "active", !.start_date = now,
                            !.end_date = now + period_days(subscriptions[id].subscription_period),
                            !.next_billing_date =
                                now + period_days(subscriptions[id].subscription_period)]
            IN  /\ subscriptions' = [subscriptions EXCEPT ![id] = row]
                /\ session' = [session EXCEPT ![s] =
                        [IdleSession EXCEPT !.op = "call_grant", !.caller = "activate",
                                            !.subscription_id = id,
                                            !.objects = [@ EXCEPT ![id] = row]]]
                /\ response' = NoResponse
    /\ UNCHANGED <<credit_balance, transactions, redeem_codes, now, tasks, queue>>

\* ----------------------------------------------------------- renew_subscription
renewed_end_date_from_now(end_date, renewal_days) == now + renewal_days

\* From now if the subscription has already expired, else from its end date.
renewed_end_date(end_date, renewal_days) ==
    IF end_date < now THEN now + renewal_days ELSE end_date + renewal_days

renew_subscription(s, id) ==
    /\ Idle(s)
    /\ IF subscriptions[id].status = "none"
       THEN /\ response' = Response("renew_subscription", NoUser, id, NoCode, 0,
                                    "NotFoundException")
            /\ UNCHANGED <<subscriptions, session>>
       ELSE IF subscriptions[id].end_date = NoDate
       THEN \* None + timedelta raises TypeError
            /\ response' = Response("renew_subscription", NoUser, id, NoCode, 0,
                                    "InternalServerException")
            /\ UNCHANGED <<subscriptions, session>>
       ELSE LET renewal_days == period_days(subscriptions[id].subscription_period)
                end_date == renewed_end_date(subscriptions[id].end_date, renewal_days)
                row == [subscriptions[id] EXCEPT
                            !.start_date =
                                IF subscriptions[id].end_date < now THEN now ELSE @,
                            !.end_date = end_date,
                            !.next_billing_date = end_date,
                            !.status = "active"]
            IN  /\ subscriptions' = [subscriptions EXCEPT ![id] = row]
                /\ session' = [session EXCEPT ![s] =
                        [IdleSession EXCEPT !.op = "call_grant", !.caller = "renew",
                                            !.subscription_id = id,
                                            !.objects = [@ EXCEPT ![id] = row]]]
                /\ response' = NoResponse
    /\ UNCHANGED <<credit_balance, transactions, redeem_codes, now, tasks, queue>>

\* ---------------------------------------------------------- cancel_subscription
cancelled_and_ended(subscription) ==
    [subscription EXCEPT !.status = "cancelled", !.cancelled_at = now, !.end_date = now]

cancelled(subscription) ==
    [subscription EXCEPT !.status = "cancelled", !.cancelled_at = now]

cancel_subscription(s, user_id, id) ==
    /\ Idle(s)
    /\ IF subscriptions[id].status = "none" \/ subscriptions[id].user_id # user_id
       THEN /\ response' = Response("cancel_subscription", user_id, id, NoCode, 0,
                                    "NotFoundException")
            /\ UNCHANGED subscriptions
       ELSE /\ subscriptions' = [subscriptions EXCEPT ![id] = cancelled(@)]
            /\ response' = Response("cancel_subscription", user_id, id, NoCode, 0, "ok")
    /\ UNCHANGED <<credit_balance, transactions, redeem_codes, now, session, tasks, queue>>

\* ------------------------------------------------- handle_bagelpay_webhook
\* request.json(): the body parsed as JSON, an object as dict, an array as
\* list, a string as str; it raises for a body that is not JSON.
request_json(body) ==
    CASE body = "object" -> "dict"
      [] body = "array" -> "list"
      [] body = "string" -> "str"
      [] OTHER -> "JSONDecodeError"

\* timestamp + ".".encode() + payload: bytes are concatenated with bytes
\* only, anything else raises TypeError.
signature_data(payload) == IF payload = "bytes" THEN "bytes" ELSE "TypeError"

\* POST /bagelpay.  signature_valid: the Bagelpay-Signature header is the
\* HMAC-SHA256 of the signature data under the webhook secret.  Whatever is
\* raised before the event is dispatched is answered 400; an activation or
\* cancellation that raises is answered 500, one that returns 200.
handle_bagelpay_webhook(s, body, signature_valid, event_type, subscription_id, user_id) ==
    /\ Idle(s)
    /\ IF \/ request_json(body) = "JSONDecodeError"
          \/ signature_data(request_json(body)) = "TypeError"
       THEN /\ response' = Response("handle_bagelpay_webhook", user_id, subscription_id,
                                    NoCode, 0, "400")
            /\ UNCHANGED <<credit_balance, transactions, subscriptions, redeem_codes, now,
                           session, tasks, queue>>
       ELSE IF ~signature_valid
       THEN /\ response' = Response("handle_bagelpay_webhook", user_id, subscription_id,
                                    NoCode, 0, "401")
            /\ UNCHANGED <<credit_balance, transactions, subscriptions, redeem_codes, now,
                           session, tasks, queue>>
       ELSE IF /\ event_type \in {"subscription.paid", "subscription.canceled"}
               /\ (subscription_id = NoSub \/ user_id = NoUser)
       THEN /\ response' = Response("handle_bagelpay_webhook", user_id, subscription_id,
                                    NoCode, 0, "400")
            /\ UNCHANGED <<credit_balance, transactions, subscriptions, redeem_codes, now,
                           session, tasks, queue>>
       ELSE IF event_type = "subscription.paid"
       THEN activate_subscription(s, subscription_id, user_id)
       ELSE IF event_type = "subscription.canceled"
       THEN cancel_subscription(s, user_id, subscription_id)
       ELSE /\ response' = Response("handle_bagelpay_webhook", user_id, subscription_id,
                                    NoCode, 0, "200")
            /\ UNCHANGED <<credit_balance, transactions, subscriptions, redeem_codes, now,
                           session, tasks, queue>>

\* ------------------------------------------------- grant_monthly_credits (sweep)
\* The daily task loads every active subscription, then calls the grant for
\* each of them in the one session.
grant_monthly_credits(s) ==
    /\ Idle(s)
    /\ LET active == {i \in SubIds : subscriptions[i].status = "active"}
       IN  session' = [session EXCEPT ![s] =
                [IdleSession EXCEPT
                    !.op = "sweep", !.caller = "sweep", !.remaining = active,
                    !.objects = [i \in SubIds |-> IF i \in active THEN subscriptions[i]
                                                 ELSE NoSubscription]]]
    /\ response' = NoResponse
    /\ UNCHANGED <<credit_balance, transactions, subscriptions, redeem_codes, now, tasks, queue>>

sweep_grant(s, id) ==
    /\ session[s].op = "sweep"
    /\ id \in session[s].remaining
    /\ LET ss == [session[s] EXCEPT !.remaining = @ \ {id}, !.subscription_id = id]
       IN  /\ session' = [session EXCEPT ![s] = grant_monthly_subscription_credit(ss, id)]
           /\ response' = IF ReturnsNone(ss, id) THEN GrantResponse(ss, id, "None")
                          ELSE NoResponse
    /\ UNCHANGED <<credit_balance, transactions, subscriptions, redeem_codes, now, tasks, queue>>

sweep_done(s) ==
    /\ session[s].op = "sweep"
    /\ session[s].remaining = {}
    /\ session' = [session EXCEPT ![s] = IdleSession]
    /\ response' = Response("grant_monthly_credits", NoUser, NoSub, NoCode,
                            session[s].error_count, "ok")
    /\ UNCHANGED <<credit_balance, transactions, subscriptions, redeem_codes, now, tasks, queue>>

\* ------------------------------------------------ check_expired_subscriptions
\* The daily task selects the active subscriptions whose end date is reached,
\* sets the status of each object and commits once.
is_expired_whatever_end_date(subscription) == subscription.status = "active"

is_expired(subscription) ==
    /\ subscription.status = "active"
    /\ subscription.end_date # NoDate
    /\ subscription.end_date <= now

check_expired_subscriptions(s) ==
    /\ Idle(s)
    /\ session' = [session EXCEPT ![s] =
            [IdleSession EXCEPT
                !.op = "expire",
                !.remaining = {i \in SubIds : is_expired(subscriptions[i])}]]
    /\ response' = NoResponse
    /\ UNCHANGED <<credit_balance, transactions, subscriptions, redeem_codes, now, tasks, queue>>

check_expired_commit(s) ==
    /\ session[s].op = "expire"
    /\ subscriptions' = [i \in SubIds |->
            IF i \in session[s].remaining
            THEN [subscriptions[i] EXCEPT !.status = "expired"]
            ELSE subscriptions[i]]
    /\ session' = [session EXCEPT ![s] = IdleSession]
    /\ response' = Response("check_expired_subscriptions", NoUser, NoSub, NoCode,
                            Cardinality(session[s].remaining), "ok")
    /\ UNCHANGED <<credit_balance, transactions, redeem_codes, now, tasks, queue>>

\* --------------------------------------- cleanup_expired_pending_subscriptions
\* The hourly task selects the pending subscriptions created more than 24
\* hours ago, sets status and cancelled_at of each object and commits once.
is_expired_pending_from_24_hours(subscription) ==
    /\ subscription.status = "pending"
    /\ subscription.created_at <= now - PENDING_EXPIRY_DAYS

is_expired_pending(subscription) ==
    /\ subscription.status = "pending"
    /\ subscription.created_at < now - PENDING_EXPIRY_DAYS

cleanup_expired_pending_subscriptions(s) ==
    /\ Idle(s)
    /\ session' = [session EXCEPT ![s] =
            [IdleSession EXCEPT
                !.op = "cleanup",
                !.remaining = {i \in SubIds : is_expired_pending(subscriptions[i])}]]
    /\ response' = NoResponse
    /\ UNCHANGED <<credit_balance, transactions, subscriptions, redeem_codes, now, tasks, queue>>

cleanup_commit(s) ==
    /\ session[s].op = "cleanup"
    /\ subscriptions' = [i \in SubIds |->
            IF i \in session[s].remaining
            THEN [subscriptions[i] EXCEPT !.status = "deleted", !.cancelled_at = now]
            ELSE subscriptions[i]]
    /\ session' = [session EXCEPT ![s] = IdleSession]
    /\ response' = Response("cleanup_expired_pending_subscriptions", NoUser, NoSub, NoCode,
                            Cardinality(session[s].remaining), "ok")
    /\ UNCHANGED <<credit_balance, transactions, redeem_codes, now, tasks, queue>>

\* --------------------------------------------------------------------- clock
\* Handlers run for moments and the clock moves a month at a time, so the
\* clock moves between handlers.
Tick ==
    /\ \A s \in Sessions : Idle(s)
    /\ now < MaxTicks * 30
    /\ now' = now + 30
    /\ response' = NoResponse
    /\ UNCHANGED <<credit_balance, transactions, subscriptions, redeem_codes, session, tasks, queue>>

\* The clock moves a day at a time in the first days.
TickDay ==
    /\ \A s \in Sessions : Idle(s)
    /\ now < MaxDays
    /\ now' = now + 1
    /\ response' = NoResponse
    /\ UNCHANGED <<credit_balance, transactions, subscriptions, redeem_codes, session, tasks, queue>>

\* ------------------------------------------------------------------- inputs
\* Spec: the ledger handlers in two concurrent sessions.
ConsumeAmounts == {30, 60}
GrantAmounts == {50}
GrantTypes == {"admin_adjust"}
TaskDurations == {<<61, 50, 20>>}

LogOpen == Len(transactions) < MaxTx

Next ==
    \/ \E s \in Sessions, u \in Users \cup {NoUser}, a \in ConsumeAmounts :
          LogOpen /\ consume_credit_load(s, u, a)
    \/ \E s \in Sessions : consume_credit_commit(s)
    \/ \E s \in Sessions, u \in Users, a \in GrantAmounts, t \in GrantTypes :
          LogOpen /\ grant_credit_load(s, u, a, t)
    \/ \E s \in Sessions : grant_credit_commit(s)
    \/ \E s \in Sessions, u \in Users, c \in Codes \cup {NoCode} :
          LogOpen /\ redeem_code_load(s, u, c)
    \/ \E s \in Sessions : redeem_code_commit(s)
    \/ \E s \in Sessions, u \in Users, d \in TaskDurations :
          LogOpen /\ video_task_settle(s, u, d)
    \/ \E s \in Sessions : video_task_commit(s)
    \/ \E s \in Sessions : commit_fails(s)

Spec == Init /\ [][Next]_vars

\* SubSpec: one user's subscription, its grants by the payment handlers and
\* the daily sweep, and the user's consumption, in two concurrent sessions.
\* The subscription is ordered at the start and cancelled at most once.
SubUsers == {"u1"}
SubSubs == {"s1"}
Plans == {<<"basic", "monthly">>}
SubConsumeAmounts == {400, 1000}

\* The payment handlers run in the web process, the daily sweep and the
\* consumption in the Celery worker.
Web == "a"
Worker == "b"

\* RefundSpec: refunds by the request handlers (refund_credit) and by the
\* workers (refund_credit_sync), for the same users, amounts and tasks.
RefundAmounts == {30, 60}
RefundTasks == {"t1", NoTask}

RefundNext ==
    \/ \E u \in Users \cup {NoUser}, a \in RefundAmounts, t \in RefundTasks :
          LogOpen /\ refund_credit_load(Web, u, a, t)
    \/ grant_credit_commit(Web)
    \/ \E u \in Users \cup {NoUser}, a \in RefundAmounts, t \in RefundTasks :
          LogOpen /\ refund_credit_sync_load(Worker, u, a, t)
    \/ refund_credit_sync_commit(Worker)

RefundSpec == Init /\ [][RefundNext]_vars

\* One consumption after a grant, in the first month.
ConsumeOpen ==
    /\ now = 0
    /\ transactions # <<>>
    /\ transactions[Len(transactions)].transaction_type = "monthly_grant"

GrantsOpen == TypeCount("monthly_grant") < MaxGrants

MayRenew(id) ==
    subscriptions[id].end_date - now
        <= MaxRenewals * period_days(subscriptions[id].subscription_period)

SubNext ==
    \/ \E i \in SubSubs, u \in SubUsers, p \in Plans :
          now = 0 /\ create_subscription(Web, i, u, p[1], p[2])
    \/ \E i \in SubSubs, u \in SubUsers : GrantsOpen /\ activate_subscription(Web, i, u)
    \/ \E i \in SubSubs : GrantsOpen /\ MayRenew(i) /\ renew_subscription(Web, i)
    \/ \E i \in SubSubs, u \in SubUsers :
          subscriptions[i].cancelled_at = NoDate /\ cancel_subscription(Web, u, i)
    \/ \E i \in SubSubs : GrantsOpen /\ call_grant_monthly(Web, i)
    \/ \E s \in Sessions : grant_monthly_load(s)
    \/ \E s \in Sessions : grant_monthly_commit(s)
    \/ \E s \in Sessions : grant_monthly_fails(s)
    \/ GrantsOpen /\ grant_monthly_credits(Worker)
    \/ \E i \in SubSubs : sweep_grant(Worker, i)
    \/ sweep_done(Worker)
    \/ \E u \in SubUsers, a \in SubConsumeAmounts :
          ConsumeOpen /\ consume_credit_load(Worker, u, a)
    \/ consume_credit_commit(Worker)
    \/ Tick

SubSpec == Init /\ [][SubNext]_vars

\* TaskSpec: submission and processing of video tasks, with grants that put
\* the balance on both sides of the admission threshold.
TaskUsers == {"u1"}
TaskGrantAmounts == {25, 30}

TaskNext ==
    \/ \E u \in TaskUsers \cup {NoUser}, t \in TaskIds : submit_generation_task(Web, u, t)
    \/ submit_rejects_input(Web)
    \/ submit_commit(Web)
    \/ \E u \in TaskUsers, a \in TaskGrantAmounts :
          LogOpen /\ grant_credit_load(Web, u, a, "admin_adjust")
    \/ grant_credit_commit(Web)
    \/ \E t \in TaskIds : video_task_start(Worker, t)
    \/ video_task_fails(Worker)
    \/ \E d \in TaskDurations \cup {<<29>>} :
          /\ session[Worker].op = "processing"
          /\ video_task_settle(Worker, session[Worker].user_id, d)
    \/ video_task_commit(Worker)

TaskSpec == Init /\ [][TaskNext]_vars

\* PipeSpec: one task of one user through the stages of video_task, with the
\* retries of the generation calls, the failures of the other stages, a
\* settlement that finds no user row, and the message delivered again.
PipeTasks == {"t1"}
PipeDurations == {61}

RunsOpen == Len(transactions) <= MaxTx

\* The steps of a run of video_task once it has its task row.
video_task(s) ==
    \/ video_task_text(s)
    \/ video_task_split(s)
    \/ \E n \in 0..MaxSplit : split_content_into_segments(s, n)
    \/ generate_image_for_segment(s)
    \/ \E over_limit \in BOOLEAN : generate_narration_script(s, over_limit)
    \/ generate_audio_from_text(s)
    \/ \E d \in PipeDurations : merge_image_and_audio(s, d)
    \/ concatenate_videos(s)
    \/ retry(s)
    \/ session[s].stage \notin RetriedStages /\ video_task_fails(s)
    \/ \E u \in {session[s].user_id, NoUser} :
          /\ session[s].op = "processing"
          /\ session[s].stage = "upload"
          /\ video_task_settle(s, u, session[s].segment_durations)
    \/ video_task_commit(s)
    \/ video_task_commit_fails(s)

\* Every message is delivered once.
RunNext ==
    \/ \E t \in PipeTasks : submit_generation_task(Web, "u1", t)
    \/ submit_commit(Web)
    \/ LogOpen /\ grant_credit_load(Web, "u1", MIN_CREDIT_FOR_TASK, "admin_adjust")
    \/ grant_credit_commit(Web)
    \/ \E t \in PipeTasks : video_task_start(Worker, t)
    \/ video_task(Worker)

PipeNext ==
    \/ RunNext
    \/ \E t \in PipeTasks : RunsOpen /\ video_task_redelivered(t)

PipeSpec == Init /\ [][PipeNext]_vars

\* The worker executes the function statement after statement: as long as
\* the run has a next step, it takes one.
RunFairSpec == Init /\ [][RunNext]_vars /\ WF_vars(video_task(Worker))

\* WebhookSpec: subscriptions are created at checkout, the payment provider
\* posts its events, the owner cancels, and the hourly cleanup removes the
\* subscriptions that stayed pending.
WebhookBodies == {"object", "array", "text"}
WebhookEvents == {"subscription.paid", "subscription.canceled", "checkout.completed"}

WebhookNext ==
    \/ \E i \in SubIds, u \in SubUsers, p \in Plans : create_subscription(Web, i, u, p[1], p[2])
    \/ \E b \in WebhookBodies, v \in BOOLEAN, e \in WebhookEvents,
          i \in SubIds \cup {NoSub}, u \in SubUsers \cup {NoUser} :
          handle_bagelpay_webhook(Web, b, v, e, i, u)
    \/ \E i \in SubIds, u \in SubUsers :
          subscriptions[i].cancelled_at = NoDate /\ cancel_subscription(Web, u, i)
    \/ cleanup_expired_pending_subscriptions(Worker)
    \/ cleanup_commit(Worker)
    \/ TickDay

WebhookSpec == Init /\ [][WebhookNext]_vars

\* SweepSpec: two users subscribe and pay, the months pass and the daily
\* sweep grants the monthly credits, with commits that fail.
SweepOpen == TypeCount("monthly_grant") < MaxGrants + 2

SweepNext ==
    \/ \E i \in SubIds, u \in Users, p \in Plans :
          now = 0 /\ create_subscription(Web, i, u, p[1], p[2])
    \/ \E i \in SubIds, u \in Users : now = 0 /\ GrantsOpen /\ activate_subscription(Web, i, u)
    \/ grant_monthly_load(Web)
    \/ \E s \in Sessions : grant_monthly_commit(s)
    \/ grant_monthly_fails(Worker)
    \/ now > 0 /\ SweepOpen /\ grant_monthly_credits(Worker)
    \/ \E i \in SubIds : sweep_grant(Worker, i)
    \/ sweep_done(Worker)
    \/ Tick

SweepSpec == Init /\ [][SweepNext]_vars

\* PaidSpec: two users each create a subscription and the payment
\* confirmation activates it, once or again, in the first month or the next.
Checkouts == {<<"s1", "u1">>, <<"s2", "u2">>}

PaidNext ==
    \/ \E c \in Checkouts, p \in Plans :
          now = 0 /\ create_subscription(Web, c[1], c[2], p[1], p[2])
    \/ \E c \in Checkouts : GrantsOpen /\ activate_subscription(Web, c[1], c[2])
    \/ grant_monthly_load(Web)
    \/ grant_monthly_commit(Web)
    \/ Tick

PaidSpec == Init /\ [][PaidNext]_vars

\* LifeSpec: the life of two subscriptions of one user, the payment handlers
\* in one session and the expiry and cleanup sweeps in the other.
LifePlans == {<<"basic", "monthly">>, <<"pro", "yearly">>,
              <<"team", "monthly">>, <<"basic", "weekly">>}

\* The payment handlers run on the first day and after the month has turned;
\* on the days in between only the sweeps run.
PaymentDay == now = 0 \/ now > MaxDays

LifeNext ==
    \/ \E i \in SubIds, u \in SubUsers \cup {NoUser}, p \in LifePlans :
          PaymentDay /\ create_subscription(Web, i, u, p[1], p[2])
    \/ \E i \in SubIds, u \in SubUsers :
          PaymentDay /\ GrantsOpen /\ activate_subscription(Web, i, u)
    \/ \E i \in SubIds : PaymentDay /\ GrantsOpen /\ MayRenew(i) /\ renew_subscription(Web, i)
    \/ \E i \in SubIds, u \in SubUsers :
          PaymentDay /\ subscriptions[i].cancelled_at = NoDate /\ cancel_subscription(Web, u, i)
    \/ grant_monthly_load(Web)
    \/ grant_monthly_commit(Web)
    \/ check_expired_subscriptions(Worker)
    \/ check_expired_commit(Worker)
    \/ cleanup_expired_pending_subscriptions(Worker)
    \/ cleanup_commit(Worker)
    \/ now = MaxDays /\ Tick
    \/ TickDay

LifeSpec == Init /\ [][LifeNext]_vars

\* CostSpec: the settlement of one task, for every list of segment durations.
\* The first segment has every duration up to MaxDuration, the later ones
\* the durations on both sides of each step of the price.
StepDurations == {29, 30, 44, 45, 59, 60, 61}
AllDurations ==
    UNION {{d \in [1..n -> 0..MaxDuration] : \A i \in 2..n : d[i] \in StepDurations} :
           n \in 1..MaxSegments}

CostNext ==
    \/ \E d \in AllDurations : transactions = <<>> /\ video_task_settle(Worker, "u1", d)
    \/ video_task_commit(Worker)

CostSpec == Init /\ [][CostNext]_vars

\* ------------------------------------------------------------------ claims
Exceptions == {"InternalServerException", "BadRequestException", "NotFoundException"}

RECURSIVE RowsOf(_, _)
RowsOf(rows, user_id) ==
    IF rows = <<>> THEN <<>>
    ELSE (IF Head(rows).user_id = user_id THEN <<Head(rows)>> ELSE <<>>)
         \o RowsOf(Tail(rows), user_id)

RECURSIVE Replays(_, _)
Replays(rows, balance) ==
    \/ rows = <<>>
    \/ /\ Head(rows).balance_after = balance + Head(rows).amount
       /\ Replays(Tail(rows), balance + Head(rows).amount)

RECURSIVE AmountSum(_)
AmountSum(rows) == IF rows = <<>> THEN 0 ELSE Head(rows).amount + AmountSum(Tail(rows))

\* C1: for every user, replaying the amounts of the user's transactions in
\* creation order from balance 0 reproduces every stored balance_after.
C1_LedgerReplays == \A u \in Users : Replays(RowsOf(transactions, u), 0)

\* C2: concurrent ledger mutations of one user are serialized: once they have
\* committed, the user's balance is the balance before (0 at the start) plus
\* the sum of the committed amounts; no update is lost.
C2_NoLostUpdate ==
    (\A s \in Sessions : Idle(s)) =>
        \A u \in Users : credit_balance[u] = AmountSum(RowsOf(transactions, u))

\* A call of consume that raises at once: nothing is left in the session.
ConsumeRefused ==
    /\ session' = session
    /\ response'.handler = "consume_credit"
    /\ response'.user_id \in Users

\* C3: consume with amount > current balance fails, leaves credit_balance
\* unchanged and appends no transaction: no such call goes on to a debit, and
\* the call that is refused raises and changes nothing.
C3_ConsumeBeyondBalanceFails ==
    [][/\ \A s \in Sessions :
            (Idle(s) /\ session'[s].op = "consume")
                => session'[s].amount <= credit_balance[session'[s].user_id]
       /\ (ConsumeRefused /\ response'.amount > credit_balance[response'.user_id])
            => /\ response'.result \in Exceptions
               /\ credit_balance' = credit_balance
               /\ transactions' = transactions]_vars

C3_Witness ==
    /\ response.handler = "consume_credit"
    /\ response.result \in Exceptions
    /\ response.user_id \in Users
    /\ response.amount > credit_balance[response.user_id]
    /\ credit_balance[response.user_id] > 0
    /\ TypeCount("task_consume") = 0
    /\ \A s \in Sessions : Idle(s)

\* C4: when consume is called with balance < amount, the error the caller gets
\* is InsufficientCreditException and no other kind.
C4_InsufficientCreditSurfaced ==
    [][(ConsumeRefused /\ credit_balance[response'.user_id] < response'.amount)
            => response'.result = "InsufficientCreditException"]_vars

\* What a ledger operation persists.
Persisted ==
    <<credit_balance, transactions,
      [c \in Codes |-> redeem_codes[c].is_used],
      [i \in SubIds |-> subscriptions[i].last_credit_grant_date]>>

Appended == SubSeq(transactions', Len(transactions) + 1, Len(transactions'))

\* C5: every ledger operation is atomic: when consume, grant, redeem or the
\* monthly grant fails, balance, log, is_used and last_credit_grant_date are
\* unchanged; when it succeeds, the balance and every appended entry appear
\* together.
C5_AtomicOperations ==
    [][response'.handler \in {"consume_credit", "grant_credit", "redeem_code",
                              "grant_monthly_subscription_credit"}
        => /\ response'.result \in Exceptions => Persisted' = Persisted
           /\ response'.result = "transaction"
                => /\ Appended # <<>>
                   /\ \A i \in 1..Len(Appended) : Appended[i].user_id = response'.user_id
                   /\ credit_balance'[response'.user_id]
                        = Appended[Len(Appended)].balance_after
                   /\ response'.handler = "redeem_code"
                        => redeem_codes'[response'.code].is_used
                   /\ response'.handler = "grant_monthly_subscription_credit"
                        => subscriptions'[response'.subscription_id].last_credit_grant_date
                             = now]_vars

MonthlyGrants(id) ==
    {i \in 1..Len(transactions) :
        /\ transactions[i].transaction_type = "monthly_grant"
        /\ transactions[i].subscription_id = id}

\* C6: the monthly grant is idempotent per calendar month, hence over any
\* activations, renewals and sweeps a subscription has at most one
\* monthly_grant entry per calendar month.
C6_OneGrantPerMonth ==
    \A id \in SubIds : \A i, j \in MonthlyGrants(id) :
        i < j => ~SameMonth(transactions[i].created_at, transactions[j].created_at)

\* The amount of the subscription's latest monthly_grant entry.
PriorGrantAmount(id) ==
    IF MonthlyGrants(id) = {} THEN 0
    ELSE transactions[CHOOSE i \in MonthlyGrants(id) :
                          \A j \in MonthlyGrants(id) : j <= i].amount

\* C7: a monthly grant for an active subscription whose last grant was in an
\* earlier month first adds a monthly_reclaim of -min(prior grant, balance) if
\* that is > 0 (none when the balance is <= 0, and never below 0), then a
\* monthly_grant of +monthly_credits, and sets last_credit_grant_date to now;
\* the balance becomes old balance - reclaim + monthly_credits, and the
\* commit stores just that.
C7_ReclaimThenGrant ==
    [][\A s \in Sessions :
        LET id == session'[s].subscription_id
            subscription == Object(session[s], id)
            u == subscription.user_id
            old == credit_balance[u]
            prior == PriorGrantAmount(id)
            least == IF prior < old THEN prior ELSE old
            reclaim == IF least > 0 THEN least ELSE 0
            credits == subscription.monthly_credits
        IN  /\ (/\ session[s].op \in {"call_grant", "sweep"}
                /\ session'[s].op = "monthly"
                /\ subscription.last_credit_grant_date # NoDate)
               => /\ subscription.status = "active"
                  /\ ~SameMonth(subscription.last_credit_grant_date, now)
                  /\ old - reclaim >= Min(old, 0)
                  /\ session'[s].added =
                        (IF reclaim > 0
                         THEN <<CreditTransaction(u, id, "monthly_reclaim",
                                                  0 - reclaim, old - reclaim)>>
                         ELSE <<>>)
                        \o <<CreditTransaction(u, id, "monthly_grant", credits,
                                               old - reclaim + credits)>>
                  /\ session'[s].balance = old - reclaim + credits
                  /\ session'[s].objects[id].last_credit_grant_date = now
            /\ (/\ session[s].op = "monthly"
                /\ session'[s].op # "monthly"
                /\ \/ response'.result = "transaction"
                   \/ Persisted' # Persisted)
               => /\ transactions' = transactions \o session[s].added
                  /\ credit_balance'[session[s].user_id] = session[s].balance
                  /\ subscriptions'[session[s].subscription_id].last_credit_grant_date
                        = now]_vars

C7_Witness ==
    \E i \in 1..(Len(transactions) - 1) :
        /\ transactions[i].transaction_type = "monthly_reclaim"
        /\ transactions[i].amount = 0 - 600
        /\ transactions[i].balance_after = 0
        /\ transactions[i + 1].transaction_type = "monthly_grant"
        /\ transactions[i + 1].amount = BASIC_MONTHLY_CREDITS
        /\ transactions[i + 1].balance_after = BASIC_MONTHLY_CREDITS
        /\ transactions[i + 1].created_at = now
        /\ subscriptions[transactions[i + 1].subscription_id].last_credit_grant_date = now
        /\ credit_balance[transactions[i + 1].user_id] = BASIC_MONTHLY_CREDITS

\* The function is called in session s for subscription id.
GrantCalled(s, id) ==
    \/ /\ session[s].op = "call_grant"
       /\ session[s].subscription_id = id
       /\ session'[s].op # "call_grant"
    \/ /\ session[s].op = "sweep"
       /\ id \in session[s].remaining
       /\ id \notin session'[s].remaining

\* C8: the monthly grant mutates the ledger only for an active subscription:
\* called for a pending, cancelled, expired or deleted one it returns none
\* and leaves balance, log and last_credit_grant_date unchanged.
C8_OnlyActiveSubscriptions ==
    [][\A s \in Sessions, id \in SubIds :
        (GrantCalled(s, id) /\ Object(session[s], id).status # "active")
            => /\ response'.handler = "grant_monthly_subscription_credit"
               /\ response'.subscription_id = id
               /\ response'.result = "None"
               /\ session'[s].op # "monthly"
               /\ Persisted' = Persisted]_vars

C8_Witness ==
    /\ response.handler = "grant_monthly_subscription_credit"
    /\ response.result = "None"
    /\ response.subscription_id \in SubIds
    /\ subscriptions[response.subscription_id].status \in {"pending", "cancelled"}
    /\ subscriptions[response.subscription_id].last_credit_grant_date = NoDate
    /\ transactions = <<>>

\* The price list as the specification states it.
ListedCost(d, c) ==
    /\ d > 60 => c = 45
    /\ (45 <= d /\ d <= 60) => c = 40
    /\ (30 <= d /\ d < 45) => c = 35
    /\ d < 30 => c = 30

RECURSIVE SumTo(_, _)
SumTo(f, n) == IF n = 0 THEN 0 ELSE f[n] + SumTo(f, n - 1)

\* C9: the segment cost is 45 if d > 60, 40 if 45 <= d <= 60, 35 if
\* 30 <= d < 45 and 30 if d < 30, and the cost of a task is the sum of its
\* segments' costs.
C9_SegmentCost ==
    \A s \in Sessions :
        session[s].op = "settle" =>
            /\ Len(session[s].segment_credits) = Len(session[s].segment_durations)
            /\ \A i \in 1..Len(session[s].segment_durations) :
                  ListedCost(session[s].segment_durations[i], session[s].segment_credits[i])
            /\ session[s].total_credits
                  = SumTo(session[s].segment_credits, Len(session[s].segment_credits))
            /\ session[s].added[1].amount = 0 - session[s].total_credits

C9_Witness ==
    \E s \in Sessions :
        /\ session[s].op = "settle"
        /\ session[s].segment_durations = <<62, 29>>
        /\ session[s].segment_credits = <<45, 30>>
        /\ session[s].total_credits = 75

\* C10 as stated: the segment cost is 45 for duration 60, 40 for 59, 35 for 44
\* and 30 for 29.
C10_BoundaryCostsAsStated ==
    \A s \in Sessions :
        session[s].op = "settle" =>
            \A i \in 1..Len(session[s].segment_durations) :
                LET d == session[s].segment_durations[i]
                    c == session[s].segment_credits[i]
                IN  /\ d = 60 => c = 45
                    /\ d = 59 => c = 40
                    /\ d = 44 => c = 35
                    /\ d = 29 => c = 30

\* C10, amended: the segment cost is 40 for duration 60 (45 from 61 on), 40
\* for 59, 35 for 44 and 30 for 29.
C10_BoundaryCosts ==
    \A s \in Sessions :
        session[s].op = "settle" =>
            \A i \in 1..Len(session[s].segment_durations) :
                LET d == session[s].segment_durations[i]
                    c == session[s].segment_credits[i]
                IN  /\ d = 61 => c = 45
                    /\ d = 60 => c = 40
                    /\ d = 59 => c = 40
                    /\ d = 44 => c = 35
                    /\ d = 29 => c = 30

C10_Witness ==
    \E s \in Sessions :
        /\ session[s].op = "settle"
        /\ session[s].segment_durations = <<60, 44>>
        /\ session[s].segment_credits = <<40, 35>>
\* The worker's step that ends a run: the task becomes completed.
Completes(t) == tasks[t].status # "completed" /\ tasks'[t].status = "completed"

\* The worker's step that reads the user row for the settlement of task t.
Settles(s, t) ==
    /\ session[s].op = "processing"
    /\ session[s].task_id = t
    /\ session'[s].op = "settle"

\* C11: a pipeline run in which every stage succeeds, with measured durations
\* d1..dn, ends with status completed, progress 100, credit_cost equal to the
\* sum of the segment costs of d1..dn, and the balance the run read reduced
\* by exactly that sum through one task_consume entry.
C11_CompletedRunSettles ==
    [][\A s \in Sessions, t \in TaskIds :
          LET u == tasks[t].user_id
          IN  /\ Settles(s, t) =>
                    LET d == session'[s].segment_durations
                        c == session'[s].segment_credits
                    IN  /\ Len(c) = Len(d)
                        /\ \A i \in 1..Len(d) : ListedCost(d[i], c[i])
                        /\ session'[s].total_credits = SumTo(c, Len(c))
                        /\ session'[s].balance = credit_balance[u] - SumTo(c, Len(c))
                        /\ tasks'[t].progress = 98
              /\ (Completes(t) /\ session[s].op = "settle" /\ session[s].task_id = t) =>
                    LET c == session[s].segment_credits
                        total == SumTo(c, Len(c))
                    IN  /\ tasks'[t].progress = 100
                        /\ tasks'[t].credit_cost = total
                        /\ Len(Appended) = 1
                        /\ Appended[1].user_id = u
                        /\ Appended[1].transaction_type = "task_consume"
                        /\ Appended[1].amount = 0 - total
                        /\ Appended[1].balance_after = session[s].balance
                        /\ credit_balance'[u] = session[s].balance
                        /\ \A v \in Users \ {u} : credit_balance'[v] = credit_balance[v]
      ]_vars

C11_Witness ==
    \E t \in TaskIds :
        /\ tasks[t].status = "completed"
        /\ tasks[t].progress = 100
        /\ tasks[t].credit_cost = 115
        /\ response.handler = "video_task"
        /\ transactions # <<>>
        /\ transactions[Len(transactions)].transaction_type = "task_consume"
        /\ transactions[Len(transactions)].amount = 0 - 115
        /\ transactions[Len(transactions)].balance_after = 30 - 115
        /\ credit_balance[tasks[t].user_id] = 30 - 115
\* The step in which a task row appears.
Created(t) == tasks[t].status = "none" /\ tasks'[t].status # "none"

\* C12: submit creates a task only if the balance it reads is at least 30;
\* with a smaller balance (e.g. 25) it fails with InsufficientCredit, creates
\* no task row and enqueues no worker job.
C12_AdmissionThreshold ==
    [][\A s \in Sessions :
          \* the call returns from its admission check
          /\ \A u \in Users :
                (session' = session /\ response'.handler = "submit_generation_task"
                                   /\ response'.user_id = u) =>
                    /\ credit_balance[u] < 30
                    /\ response'.result = "InsufficientCreditException"
                    /\ tasks' = tasks
                    /\ queue' = queue
          \* the call goes past its admission check
          /\ \A u \in Users :
                (session[s].op = "idle" /\ session'[s].op = "submit"
                                        /\ session'[s].user_id = u) =>
                    /\ credit_balance[u] >= 30
                    /\ tasks' = tasks
                    /\ queue' = queue
          \* the call commits the task row
          /\ \A t \in TaskIds :
                (Created(t) /\ session[s].op = "submit" /\ session[s].task_id = t) =>
                    /\ session[s].balance >= 30
                    /\ tasks'[t] = [NoVideoGenerateTask EXCEPT
                                       !.status = "pending", !.user_id = session[s].user_id]
                    /\ queue' = queue \cup {t}
      ]_vars

C12_Witness ==
    /\ response.handler = "submit_generation_task"
    /\ response.result = "InsufficientCreditException"
    /\ response.user_id \in Users
    /\ credit_balance[response.user_id] = 25
    /\ \A t \in TaskIds : tasks[t].status = "none"
    /\ queue = {}

\* The subscriptions of a user whose status is active.
StatusActive(u) ==
    {i \in SubIds : subscriptions[i].user_id = u /\ subscriptions[i].status = "active"}

\* C13: in every reachable state each user has at most one subscription
\* whose status is active.
C13_AtMostOneActive == \A u \in Users : Cardinality(StatusActive(u)) <= 1

\* C14: create rejects with a Conflict error, and adds no subscription
\* record, whenever the user already has a subscription with status active;
\* otherwise it adds exactly one subscription in status pending.
C14_ConflictWhenActive ==
    [][\A u \in Users, id \in SubIds :
          (response'.handler = "create_subscription" /\ response'.user_id = u
                                                     /\ response'.subscription_id = id) =>
              /\ StatusActive(u) # {} =>
                    /\ response'.result \in {"ConflictException", "BadRequestException"}
                    /\ subscriptions' = subscriptions
              /\ response'.result = "ok" =>
                    /\ StatusActive(u) = {}
                    /\ subscriptions'[id].status = "pending"
                    /\ subscriptions'[id].user_id = u
                    /\ \A j \in SubIds \ {id} : subscriptions'[j] = subscriptions[j]
      ]_vars

\* The status changes the specification lists (and the creation of a row).
ListedTransition(old, new) ==
    \/ old = new
    \/ old = "none" /\ new = "pending"
    \/ old = "pending" /\ new \in {"active", "deleted"}
    \/ old = "active" /\ new \in {"cancelled", "expired"}
    \/ old = "expired" /\ new = "active"

\* C15: every status change of a subscription is one of pending->active,
\* active->cancelled, active->expired, pending->deleted, active->active and
\* expired->active; no other transition occurs.
C15_ListedTransitionsOnly ==
    [][\A i \in SubIds : ListedTransition(subscriptions[i].status, subscriptions'[i].status)]_vars

\* Session s runs the grant that the activation of subscription i calls, and
\* the log holds no grant of i yet (it has been pending until now).
FirstGrant(s, i) ==
    /\ session[s].caller = "activate"
    /\ session[s].subscription_id = i
    /\ MonthlyGrants(i) = {}

\* C16: activate on a pending subscription sets status active, start_date =
\* now and end_date = now + 30 days (monthly) or now + 365 days (yearly), and
\* calls the monthly grant, which appends exactly one monthly_grant entry of
\* monthly_credits for that subscription to the owner's ledger.
C16_ActivatePending ==
    [][\A s \in Sessions, i \in SubIds :
          LET before == subscriptions[i]
              after == subscriptions'[i]
          IN  /\ (/\ Idle(s)
                  /\ session'[s].caller = "activate"
                  /\ session'[s].subscription_id = i
                  /\ before.status = "pending")
                 => /\ after.status = "active"
                    /\ after.start_date = now
                    /\ before.subscription_period = "monthly" => after.end_date = now + 30
                    /\ before.subscription_period = "yearly" => after.end_date = now + 365
                    /\ after.user_id = before.user_id
                    /\ after.monthly_credits = before.monthly_credits
                    /\ session'[s].op = "call_grant"
              /\ (FirstGrant(s, i) /\ session[s].op = "call_grant"
                                   /\ session'[s].op # "call_grant")
                 => /\ session'[s].op = "monthly"
                    /\ Len(session'[s].added) = 1
                    /\ session'[s].added[1].transaction_type = "monthly_grant"
                    /\ session'[s].added[1].amount = before.monthly_credits
                    /\ session'[s].added[1].subscription_id = i
                    /\ session'[s].added[1].user_id = before.user_id
              /\ (FirstGrant(s, i) /\ session[s].op = "monthly"
                                   /\ transactions' # transactions)
                 => /\ Appended = session[s].added
                    /\ Len(Appended) = 1
                    /\ Appended[1].transaction_type = "monthly_grant"
                    /\ Appended[1].amount = before.monthly_credits
                    /\ Appended[1].subscription_id = i
                    /\ Appended[1].user_id = before.user_id
                    /\ Cardinality(MonthlyGrants(i)') = 1
      ]_vars

C16_Witness ==
    \E i \in SubIds :
        /\ subscriptions[i].status = "active"
        /\ subscriptions[i].subscription_period = "yearly"
        /\ subscriptions[i].start_date = now
        /\ subscriptions[i].end_date = now + 365
        /\ response.handler = "grant_monthly_subscription_credit"
        /\ response.subscription_id = i
        /\ response.result = "transaction"
        /\ Len(transactions) = 1
        /\ transactions[1].transaction_type = "monthly_grant"
        /\ transactions[1].subscription_id = i
        /\ transactions[1].amount = PRO_MONTHLY_CREDITS
        /\ credit_balance[subscriptions[i].user_id] = PRO_MONTHLY_CREDITS

\* C17: renew extends the end date by the period length (30 or 365 days),
\* counted from now when the end date is already past and from the prior end
\* date when it is still current; afterwards the status is active, end_date is
\* later than both now and the prior end_date, and the monthly grant is called.
C17_RenewExtends ==
    [][\A s \in Sessions, i \in SubIds :
          LET before == subscriptions[i]
              after == subscriptions'[i]
              days == IF before.subscription_period = "yearly" THEN 365 ELSE 30
          IN  (/\ Idle(s)
               /\ session'[s].caller = "renew"
               /\ session'[s].subscription_id = i)
              => /\ before.end_date # NoDate
                 /\ before.end_date < now => after.end_date = now + days
                 /\ before.end_date >= now => after.end_date = before.end_date + days
                 /\ after.status = "active"
                 /\ after.end_date > now
                 /\ after.end_date > before.end_date
                 /\ session'[s].op = "call_grant"
                 /\ session'[s].objects[i] = after
      ]_vars

C17_Witness ==
    \E s \in Sessions, i \in SubIds :
        /\ session[s].op = "call_grant"
        /\ session[s].caller = "renew"
        /\ session[s].subscription_id = i
        /\ subscriptions[i].status = "active"
        /\ subscriptions[i].created_at = 0
        /\ now > 30
        /\ subscriptions[i].start_date = now
        /\ subscriptions[i].end_date = now + 30

\* C18: cancel sets the subscription's status to cancelled and its cancelled
\* timestamp, and leaves everything else unchanged: start_date, end_date,
\* next_billing_date, last_credit_grant_date, the user's credit_balance and
\* the transaction log.
C18_CancelFrame ==
    [][\A i \in SubIds :
          (/\ response'.handler = "cancel_subscription"
           /\ response'.subscription_id = i
           /\ response'.result = "ok")
          => /\ subscriptions'[i].status = "cancelled"
             /\ subscriptions'[i].cancelled_at = now
             /\ subscriptions'[i].start_date = subscriptions[i].start_date
             /\ subscriptions'[i].end_date = subscriptions[i].end_date
             /\ subscriptions'[i].next_billing_date = subscriptions[i].next_billing_date
             /\ subscriptions'[i].last_credit_grant_date
                   = subscriptions[i].last_credit_grant_date
             /\ subscriptions'[i].user_id = subscriptions[i].user_id
             /\ subscriptions'[i].monthly_credits = subscriptions[i].monthly_credits
             /\ subscriptions'[i].subscription_period = subscriptions[i].subscription_period
             /\ subscriptions'[i].created_at = subscriptions[i].created_at
             /\ \A j \in SubIds \ {i} : subscriptions'[j] = subscriptions[j]
             /\ credit_balance' = credit_balance
             /\ transactions' = transactions
      ]_vars

C18_Witness ==
    \E i \in SubIds :
        /\ response.handler = "cancel_subscription"
        /\ response.subscription_id = i
        /\ response.result = "ok"
        /\ subscriptions[i].status = "cancelled"
        /\ subscriptions[i].cancelled_at = now
        /\ subscriptions[i].start_date = 0
        /\ subscriptions[i].end_date = 30
        /\ subscriptions[i].last_credit_grant_date = 0
        /\ now = 0
        /\ credit_balance[subscriptions[i].user_id] = BASIC_MONTHLY_CREDITS
        /\ Len(transactions) = 1

\* The active subscriptions whose end date has passed.
Lapsed == {i \in SubIds : /\ subscriptions[i].status = "active"
                          /\ subscriptions[i].end_date # NoDate
                          /\ subscriptions[i].end_date <= now}

\* C19: the expiry sweep turns every active subscription whose end_date has
\* passed into expired and changes no other subscription; run again
\* immediately afterwards it finds nothing to expire (expired count 0).
C19_ExpirySweep ==
    [][\A s \in Sessions :
          /\ (Idle(s) /\ session'[s].op = "expire")
             => /\ session'[s].remaining = Lapsed
                /\ subscriptions' = subscriptions
          /\ (session[s].op = "expire" /\ session'[s].op # "expire")
             => /\ \A i \in session[s].remaining :
                      subscriptions'[i] = [subscriptions[i] EXCEPT !.status = "expired"]
                /\ \A i \in SubIds \ session[s].remaining :
                      subscriptions'[i] = subscriptions[i]
                /\ response'.handler = "check_expired_subscriptions"
                /\ response'.amount = Cardinality(session[s].remaining)
                /\ Lapsed' = {}
                /\ credit_balance' = credit_balance
                /\ transactions' = transactions
      ]_vars

C19_Witness ==
    \E i \in SubIds :
        /\ response.handler = "check_expired_subscriptions"
        /\ response.amount = 1
        /\ subscriptions[i].status = "expired"
        /\ subscriptions[i].end_date = 30
        /\ now > 30
        /\ \E j \in SubIds \ {i} : /\ subscriptions[j].status = "active"
                                   /\ subscriptions[j].end_date > now

\* The pending subscriptions created more than 24 hours (one day) ago.
Abandoned == {i \in SubIds : /\ subscriptions[i].status = "pending"
                             /\ now - subscriptions[i].created_at > 1}

\* C20: the pending-cleanup sweep sets status deleted and the cancellation
\* timestamp on exactly the subscriptions that are pending and were created
\* more than 24 hours ago; younger pending subscriptions and subscriptions in
\* any other status are unchanged.
C20_PendingCleanup ==
    [][\A s \in Sessions :
          /\ (Idle(s) /\ session'[s].op = "cleanup")
             => /\ session'[s].remaining = Abandoned
                /\ subscriptions' = subscriptions
          /\ (session[s].op = "cleanup" /\ session'[s].op # "cleanup")
             => /\ \A i \in session[s].remaining :
                      subscriptions'[i] = [subscriptions[i] EXCEPT
                                              !.status = "deleted", !.cancelled_at = now]
                /\ \A i \in SubIds \ session[s].remaining :
                      subscriptions'[i] = subscriptions[i]
                /\ response'.handler = "cleanup_expired_pending_subscriptions"
                /\ response'.amount = Cardinality(session[s].remaining)
                /\ Abandoned' = {}
                /\ credit_balance' = credit_balance
                /\ transactions' = transactions
      ]_vars

C20_Witness ==
    \E i \in SubIds :
        /\ response.handler = "cleanup_expired_pending_subscriptions"
        /\ response.amount = 1
        /\ subscriptions[i].status = "deleted"
        /\ subscriptions[i].created_at = 0
        /\ subscriptions[i].cancelled_at = now
        /\ \E j \in SubIds \ {i} : /\ subscriptions[j].status = "pending"
                                   /\ subscriptions[j].created_at = now

\* The log rows that credit a redeemed code.
RedeemRows == {i \in 1..Len(transactions) : transactions[i].transaction_type = "redeem_code"}

\* C21: a redeem code is single-use: each code credits its amount at most
\* once over any sequence of redeem calls, so the log never holds more
\* redeem_code entries than there are used codes.
C21_CodeCreditsOnce ==
    Cardinality(RedeemRows) <= Cardinality({c \in Codes : redeem_codes[c].is_used})

\* C22: a user can redeem at most one 1000-credit code: the ledger of a user
\* never holds two redeem_code entries of amount 1000.
C22_OneLimitedCodePerUser ==
    \A u \in Users :
        Cardinality({i \in RedeemRows : /\ transactions[i].user_id = u
                                        /\ transactions[i].amount = 1000}) <= 1

Terminal(task) == task.status \in {"completed", "failed", "cancelled"}

\* C24: a task is terminal once its status is completed, failed or
\* cancelled: no later step, a repeated or redelivered video_task invocation
\* included, changes its status, progress, credit_cost or output reference.
C24_TerminalIsFinal ==
    [][\A t \in TaskIds :
          Terminal(tasks[t])
          => /\ tasks'[t].status = tasks[t].status
             /\ tasks'[t].progress = tasks[t].progress
             /\ tasks'[t].credit_cost = tasks[t].credit_cost
             /\ tasks'[t].output_video_url = tasks[t].output_video_url]_vars

\* The run of the worker ends without completing the task.
RunEndsUncompleted(s) ==
    /\ session[s].op \in {"processing", "settle"}
    /\ session'[s].op = "idle"
    /\ response'.result # "completed"

SettlementSwallowed(s) ==
    /\ session[s].op = "settle"
    /\ session[s].added = <<>>

C27_NegativeOnlyBySettlement ==
    [][/\ \A u \in Users :
             credit_balance[u] >= 0 /\ credit_balance'[u] < 0
             => response'.handler = "video_task"
       /\ response'.handler = "consume_credit" /\ Len(transactions') > Len(transactions)
          => transactions'[Len(transactions')].balance_after >= 0]_vars

\* C28: exceeding the audio token ceiling is terminal and bypasses the retry:
\* when the narration text is over the limit, the first attempt of the audio
\* synthesis is the only one, and its failure fails the task.
C28_TokenLimitNotRetried ==
    [][\A t \in TaskIds :
          /\ session[Worker].task_id = t
          /\ session[Worker].stage = "audio"
          /\ session[Worker].over_limit
          /\ session'[Worker] # session[Worker]
          => /\ session[Worker].attempt = 1
             /\ tasks'[t].status = "failed"]_vars

\* C29: each call to the generation service inside one run (segmentation,
\* image, narration script, audio) is attempted at most 3 times: a failure
\* of attempt 1 or 2 is followed by the next attempt of the same call, a
\* failure of attempt 3 fails the task, and a success on attempt 1, 2 or 3
\* lets the pipeline continue with the next stage.
C29_AtMostThreeAttempts ==
    [][\A t \in TaskIds :
          /\ session[Worker].task_id = t
          /\ session[Worker].op = "processing"
          /\ session[Worker].stage \in RetriedStages
          /\ session'[Worker] # session[Worker]
          => /\ session[Worker].attempt \in 1..3
             /\ \/ /\ session'[Worker].op = "processing"
                   /\ session'[Worker].stage # session[Worker].stage
                   /\ tasks'[t].status = "processing"
                \/ /\ session[Worker].attempt < 3
                   /\ session'[Worker] =
                          [session[Worker] EXCEPT !.attempt = session[Worker].attempt + 1]
                   /\ tasks' = tasks
                \/ /\ session[Worker].attempt = 3
                   /\ session'[Worker] = IdleSession
                   /\ tasks'[t].status = "failed"
                   /\ tasks'[t].error_message # ""
                   /\ response'.result = "failed"]_vars

\* The audio of a segment has succeeded on its third attempt and the run is
\* merging the segment.
C29_Witness ==
    \E t \in TaskIds :
        /\ session[Worker].task_id = t
        /\ session[Worker].stage = "merge"
        /\ session[Worker].attempt = 3
        /\ tasks[t].status = "processing"

\* C30: a correctly signed subscription.paid event that carries the id of a
\* pending subscription and of its user moves the subscription to active and
\* is not answered with an error status.
C30_PaidEventActivates ==
    [][\A i \in SubIds, u \in Users :
          /\ subscriptions[i].status = "pending"
          /\ subscriptions[i].user_id = u
          /\ handle_bagelpay_webhook(Web, "object", TRUE, "subscription.paid", i, u)
          => /\ subscriptions'[i].status = "active"
             /\ response'.result \notin {"400", "401", "500"}]_vars

ProgressOnEntry(run) ==
    CASE run.stage = "begin" -> 5
      [] run.stage = "text" -> 10
      [] run.stage = "split" -> 20
      [] run.stage = "image" -> segment_progress(run.segment, run.segments, 0)
      [] run.stage = "narration" -> segment_progress(run.segment, run.segments, 1)
      [] run.stage = "audio" -> segment_progress(run.segment, run.segments, 2)
      [] run.stage = "merge" -> segment_progress(run.segment, run.segments, 3)
      [] run.stage = "concat" -> 85
      [] run.stage = "upload" -> 95
      [] OTHER -> 0

\* The stage a run may enter after the one it is in: the four calls of a
\* segment in their order, the next segment after the clip of the one
\* before, the concatenation after the clip of the last.
FollowsInOrder(old, new) ==
    \/ old.stage = "begin" /\ new.stage = "text"
    \/ old.stage = "text" /\ new.stage = "split"
    \/ /\ old.stage = "split" /\ new.stage = "image"
       /\ new.segments >= 1 /\ new.segment = 0
    \/ /\ <<old.stage, new.stage>> \in {<<"image", "narration">>, <<"narration", "audio">>,
                                         <<"audio", "merge">>}
       /\ new.segment = old.segment /\ new.segments = old.segments
    \/ /\ old.stage = "merge" /\ new.stage = "image"
       /\ old.segment + 1 < old.segments
       /\ new.segment = old.segment + 1 /\ new.segments = old.segments
       /\ Len(new.segment_durations) = new.segment
    \/ /\ old.stage = "merge" /\ new.stage = "concat"
       /\ old.segment + 1 = old.segments
       /\ Len(new.segment_durations) = old.segments
    \/ old.stage = "concat" /\ new.stage = "upload"

\* C32: in a run that does not fail the stages happen in a fixed order, each
\* with its progress: processing (5), text (10), segmentation (20), for each
\* segment in index order image, narration, audio and clip, concatenation
\* (85), upload (95), settlement (98), and completed (100) only after the
\* settlement, which only follows the upload.
C32_StagesInOrder ==
    [][\A t \in TaskIds :
          /\ /\ session'[Worker].task_id = t
             /\ session'[Worker] # session[Worker]
             /\ tasks'[t].status = "processing"
             => \/ /\ session[Worker].op = "idle"
                   /\ session'[Worker].stage = "begin"
                   /\ tasks'[t].progress = 5
                \/ /\ session[Worker].op = "processing"
                   /\ session'[Worker].op = "processing"
                   /\ session[Worker].stage \in RetriedStages
                   /\ session'[Worker].stage = session[Worker].stage
                   /\ session'[Worker].segment = session[Worker].segment
                   /\ tasks' = tasks
                \/ /\ session[Worker].op = "processing"
                   /\ session'[Worker].op = "processing"
                   /\ session[Worker].stage = "split"
                   /\ session'[Worker].stage = "segments"
                   /\ tasks' = tasks
                \/ /\ session[Worker].op = "processing"
                   /\ session'[Worker].op = "processing"
                   /\ FollowsInOrder(session[Worker], session'[Worker])
                   /\ tasks'[t].progress = ProgressOnEntry(session'[Worker])
                \/ /\ session[Worker].op = "processing"
                   /\ session[Worker].stage = "upload"
                   /\ session'[Worker].op = "settle"
                   /\ session'[Worker].segment_durations = session[Worker].segment_durations
                   /\ tasks'[t].progress = 98
          /\ tasks'[t].status = "completed" /\ tasks[t].status # "completed"
             => /\ session[Worker].op = "settle"
                /\ session[Worker].task_id = t
                /\ tasks[t].progress = 98
                /\ tasks'[t].progress = 100]_vars

\* A run of three segments of 61 seconds has completed: 3 * 45 credits.
C32_Witness ==
    \E t \in TaskIds :
        /\ tasks[t].status = "completed"
        /\ tasks[t].progress = 100
        /\ tasks[t].credit_cost = 135

\* The subscriptions that were active before this month began and have no
\* grant dated this month.
Ungranted ==
    {i \in SubIds : /\ subscriptions[i].status = "active"
                    /\ subscriptions[i].start_date < now
                    /\ ~SameMonth(subscriptions[i].last_credit_grant_date, now)}

\* C33: in the monthly-grant sweep each active subscription is processed
\* independently: a grant that fails is caught and counted and the sweep goes
\* on with the subscriptions that remain, and the sweep ends only when none
\* remains, so that every active subscription has its grant of the month
\* unless its own failure was counted.
C33_SweepGoesOn ==
    [][/\ /\ session[Worker].caller = "sweep"
          /\ session[Worker].op = "monthly"
          /\ response'.result = "InternalServerException"
          => /\ session'[Worker].op = "sweep"
             /\ session'[Worker].remaining = session[Worker].remaining
             /\ session'[Worker].error_count = session[Worker].error_count + 1
       /\ /\ session[Worker].op = "sweep"
          /\ session'[Worker] # session[Worker]
          /\ session[Worker].remaining # {}
          => /\ session'[Worker].caller = "sweep"
             /\ \E i \in session[Worker].remaining :
                   session'[Worker].remaining = session[Worker].remaining \ {i}
       /\ response'.handler = "grant_monthly_credits"
          => /\ session[Worker].remaining = {}
             /\ response'.amount = session[Worker].error_count
             /\ Cardinality(Ungranted) <= session[Worker].error_count]_vars

\* A sweep has ended with one failure counted: one subscription has its
\* grant of the month, the other, whose commit failed, has not.
C33_Witness ==
    /\ response.handler = "grant_monthly_credits"
    /\ response.amount = 1
    /\ Cardinality(Ungranted) = 1
    /\ \E i \in SubIds :
          /\ subscriptions[i].status = "active"
          /\ subscriptions[i].start_date < now
          /\ subscriptions[i].last_credit_grant_date = now

\* The log rows of one type that a subscription has in the month of day d.
RowsOfMonth(id, transaction_type, d) ==
    {i \in 1..Len(transactions) :
        /\ transactions[i].subscription_id = id
        /\ transactions[i].transaction_type = transaction_type
        /\ SameMonth(transactions[i].created_at, d)}

\* C34: the monthly grant is safe to run concurrently with itself and with
\* activate and renew: under every interleaving of two executions for the
\* same subscription in the same calendar month at most one monthly_grant
\* entry and at most one monthly_reclaim entry is appended.
C34_ConcurrentGrantOnce ==
    \A id \in SubIds : \A i \in 1..Len(transactions) :
        /\ Cardinality(RowsOfMonth(id, "monthly_grant", transactions[i].created_at)) <= 1
        /\ Cardinality(RowsOfMonth(id, "monthly_reclaim", transactions[i].created_at)) <= 1

\* C35: under every interleaving of two concurrent redeem calls for the same
\* unused code at most one call succeeds: a redeem commits its credit and
\* its redeem_code entry only for a code that no call has used before.
C35_OneRedeemSucceeds ==
    [][\A c \in Codes :
          /\ response'.handler = "redeem_code"
          /\ response'.code = c
          /\ Len(transactions') > Len(transactions)
          => ~redeem_codes[c].is_used]_vars

\* The task_consume entries that reference a task.
TaskCharges(t) ==
    {i \in 1..Len(transactions) : /\ transactions[i].transaction_type = "task_consume"
                                  /\ transactions[i].task_id = t}

\* C36: each task is charged at most once and only when it completes: the
\* ledger holds at most one task_consume entry that references the task,
\* there is one only if the task is completed, its amount is minus the
\* task's credit_cost, and only a completed task has a credit_cost.
C36_ChargedOnceWhenCompleted ==
    \A t \in TaskIds :
        /\ Cardinality(TaskCharges(t)) <= 1
        /\ \A i \in TaskCharges(t) :
              /\ tasks[t].status = "completed"
              /\ transactions[i].amount = 0 - tasks[t].credit_cost
        /\ tasks[t].credit_cost # 0 => tasks[t].status = "completed"

\* C37: repeating activate on a subscription that is already active, in the
\* same or in a later calendar month, grants no additional credits: once the
\* subscription has its monthly_grant entry of the first activation, no
\* activation adds an entry for it or changes the balance of its user.
C37_ReactivationGrantsNothing ==
    [][\A id \in SubIds :
          /\ subscriptions[id].status = "active"
          /\ MonthlyGrants(id) # {}
          => /\ MonthlyGrants(id)' = MonthlyGrants(id)
             /\ credit_balance'[subscriptions[id].user_id]
                    = credit_balance[subscriptions[id].user_id]]_vars

LedgerFields(row) ==
    [transaction_type |-> row.transaction_type, amount |-> row.amount,
     balance_after |-> row.balance_after, task_id |-> row.task_id,
     subscription_id |-> row.subscription_id]

\* C39: the synchronous ledger operations and their asynchronous
\* counterparts are equivalent: called from the same state with the same
\* arguments, refund_credit and refund_credit_sync produce the same balance
\* and entries with the same transaction_type, amount, balance_after, task_id
\* and subscription_id.
C39_SyncAsyncEquivalent ==
    /\ session[Web].op = "grant"
    /\ session[Worker].op = "refund"
    /\ session[Web].user_id = session[Worker].user_id
    /\ session[Web].amount = session[Worker].amount
    /\ session[Web].task_id = session[Worker].task_id
    => /\ session[Web].balance = session[Worker].balance
       /\ LedgerFields(session[Web].added[1]) = LedgerFields(session[Worker].added[1])
====
